---- MODULE Spec2Model ----
(***************************************************************************)
(* Model of the pipeline execution and failure-recovery engine of the     *)
(* AI-CI-CD orchestrator:                                                  *)
(*   orchestrator/core/pipeline_manager.py  PipelineExecutor, PipelineManager *)
(*   orchestrator/core/orchestrator.py      CICDOrchestrator               *)
(*   monitors/alerter.py, monitors/pipeline_monitor.py                     *)
(*                                                                         *)
(* Two flows of control touch the run registry (active_pipelines): the    *)
(* thread that executes a pipeline (execute_pipeline) and any other thread *)
(* that calls cancel_pipeline.  Neither takes a lock, so every statement   *)
(* that reads or writes a run record is a step of its own here.            *)
(***************************************************************************)
EXTENDS Integers, Sequences, FiniteSets, TLC

(***************************************************************************)
(* Bounds of the model.                                                    *)
(***************************************************************************)
MaxStages == 2        \* stages of a generated pipeline definition
MaxTasks == 2         \* tasks of one stage of a generated definition
MaxRuns == 1          \* execute_pipeline calls of the API client
MaxCancels == 2       \* cancel_pipeline calls
MaxFixAttempts == 3   \* largest configured orchestrator.max_fix_attempts
MaxPushes == 1        \* commits pushed to the remote branch while the monitor runs
MaxCalls == 3         \* start() and stop() calls
MaxMonitorAttempts == 1  \* largest max_fix_attempts of a monitored configuration
MaxTriggers == 1         \* trigger_pipeline calls of each concurrent caller
MaxAlerts == 3           \* calls of the Alerter's methods by a client
MaxFiles == 2            \* files of a fix descriptor
MaxCommands == 2         \* commands of a fix descriptor
MaxTracks == 3           \* calls of the PipelineMonitor's methods by a client
MaxCycleAttempts == 2    \* largest max_fix_attempts of a chain checked for termination


(***************************************************************************)
(* PipelineStatus (pipeline_manager.py:26-32) and the values of absent     *)
(* dictionary keys.                                                        *)
(***************************************************************************)
RUNNING == "running"
SUCCESS == "success"
FAILED == "failed"
CANCELLED == "cancelled"
None == "None"
NoTime == 0

\* PipelineType (pipeline_manager.py:19-23)
PipelineTypes == {"build", "test", "deploy"}

(***************************************************************************)
(* PipelineExecutor.execute_task                                           *)
(***************************************************************************)
\* the action identifiers the if/elif chain of execute_task dispatches on
KnownActions ==
  {"git_clone", "install", "build", "test", "archive", "deploy", "health_check"}

\* _deploy and _health_check are placeholders that always report success
PlaceholderActions == {"deploy", "health_check"}

\* the error a failing external command or library call reports
ActionError(action) ==
  CASE action = "git_clone" -> "Git clone failed"
    [] action = "install"   -> "ModuleNotFoundError: No module named 'x'"
    [] action = "build"     -> "main.c:1: error: undefined reference"
    [] action = "test"      -> "Tests timed out"
    [] action = "archive"   -> "Permission denied"
    [] OTHER                -> "error"

\* how that failure comes about: the command exits non-zero ("failed"),
\* subprocess.run raises TimeoutExpired ("timeout"), or a library call
\* raises inside the try block of the action's method ("raised")
FailureKind(action) ==
  CASE action = "git_clone" -> "raised"
    [] action = "install"   -> "failed"
    [] action = "build"     -> "failed"
    [] action = "test"      -> "timeout"
    [] action = "archive"   -> "raised"
    [] OTHER                -> "failed"

\* What running the action's method can come to.  An unrecognised action
\* runs no method ("none").  shutil.rmtree in _git_clone stands outside the
\* try block of _git_clone, so what it raises leaves the method ("escaped").
Outcome(kind, error) == [kind |-> kind, error |-> error]
ActionOutcomes(action) ==
  IF action \notin KnownActions THEN {Outcome("none", None)}
  ELSE IF action \in PlaceholderActions THEN {Outcome("ok", None)}
  ELSE {Outcome("ok", None), Outcome(FailureKind(action), ActionError(action))}
       \cup (IF action = "git_clone"
               THEN {Outcome("escaped", "[Errno 13] Permission denied: 'repo'")}
               ELSE {})
       \cup (IF action = "build" THEN {Outcome("timeout", "Build timed out")} ELSE {})

\* a dispatcher whose except clause drops the text of the exception
ExecuteTask_NoText(action, outcome) ==
  IF action \notin KnownActions
    THEN [success |-> FALSE, error |-> "Unknown action: " \o action]
  ELSE IF outcome.kind = "escaped" THEN [success |-> FALSE, error |-> None]
  ELSE [success |-> outcome.kind = "ok", error |-> outcome.error]

\* execute_task(task, context): the result it returns when the action's
\* method comes to `outcome`.  The methods turn their own failures, timeouts
\* and exceptions into a result; the except clause of execute_task does the
\* same for what leaves a method.
ExecuteTask(action, outcome) ==
  IF action \notin KnownActions
    THEN [success |-> FALSE, error |-> "Unknown action: " \o action]
  ELSE [success |-> outcome.kind = "ok", error |-> outcome.error]

(***************************************************************************)
(* Pipeline definitions                                                    *)
(***************************************************************************)
Task(name, action) == [name |-> name, action |-> action]
Stage(name, tasks) == [name |-> name, tasks |-> tasks]

\* pipelines/build/build_pipeline.py
build_pipeline ==
  [name |-> "build",
   stages |-> << Stage("checkout", << Task("clone_repository", "git_clone") >>),
                 Stage("dependencies", << Task("install_dependencies", "install") >>),
                 Stage("compile", << Task("build_project", "build") >>),
                 Stage("artifacts", << Task("create_artifacts", "archive") >>) >>,
   retry_count |-> 3]

\* pipelines/test/test_pipeline.py
test_pipeline ==
  [name |-> "test",
   stages |-> << Stage("setup", << Task("prepare_environment", "setup_test_env") >>),
                 Stage("unit_tests", << Task("run_unit_tests", "test") >>),
                 Stage("integration_tests", << Task("run_integration_tests", "test") >>),
                 Stage("reports", << Task("generate_reports", "report") >>) >>,
   retry_count |-> 2]

\* pipelines/deploy/deploy_pipeline.py (its on_failure has no retry_count)
deploy_pipeline ==
  [name |-> "deploy",
   stages |-> << Stage("pre_deploy", << Task("validate_artifacts", "validate") >>),
                 Stage("staging", << Task("deploy_to_staging", "deploy") >>),
                 Stage("smoke_tests", << Task("run_smoke_tests", "test") >>),
                 Stage("production", << Task("deploy_to_production", "deploy") >>) >>]

\* CICDOrchestrator._load_pipeline_definitions
pipeline_definitions ==
  [t \in PipelineTypes |->
     CASE t = "build" -> build_pipeline
       [] t = "test" -> test_pipeline
       [] t = "deploy" -> deploy_pipeline]

\* The definitions a client of PipelineManager may pass to execute_pipeline:
\* every list of at most MaxStages stages of at most MaxTasks tasks each.
\* Their tasks run a recognised action whose command may succeed or fail,
\* which covers every result execute_task can return to the engine.
GenActions == {"test"}
SeqsUpTo(S, n) == UNION {[1..k -> S] : k \in 0..n}
GenTasks == {Task("task", a) : a \in GenActions}
GenStages == {Stage("stage", ts) : ts \in SeqsUpTo(GenTasks, MaxTasks)}
GenDefinitions ==
  {[name |-> "generated", stages |-> ss] :
     ss \in SeqsUpTo(GenStages, MaxStages)}

VARIABLES
  active_pipelines,  \* PipelineManager.active_pipelines: run id -> record
  clock,             \* number of datetime.now() readings taken so far
  client_def,        \* the definition the API client executes
  e_pc,              \* position of the executing thread in execute_pipeline
  e_id,              \* pipeline_id of the run being executed
  e_stages,          \* stages = pipeline_def.get("stages", [])
  e_stage,           \* index of the stage the for loop is at
  e_task,            \* index of the task the inner for loop is at
  e_result,          \* stage_result of _execute_stage
  e_runs,            \* execute_pipeline calls made by the API client
  task_log,          \* every execute_task call made, in order, with its outcome
  c_pc,              \* position of the cancelling thread in cancel_pipeline
  c_id,              \* pipeline_id argument of cancel_pipeline
  c_ret,             \* value the last cancel_pipeline call returned
  c_calls,           \* cancel_pipeline calls made
  cancel_called,     \* run ids cancel_pipeline was called with
  cancel_true,       \* run ids for which cancel_pipeline returned True
  config,            \* CICDOrchestrator.config
  ai_fixer,          \* TRUE when self.ai_fixer is an AIFixer, FALSE when it is None
  alerts,            \* Alerter.alerts
  metrics,           \* PipelineMonitor.metrics
  o_pc,              \* position of the orchestrating thread
  tp_type,           \* pipeline_type argument of the trigger_pipeline call in progress
  tp_return,         \* where the trigger_pipeline call in progress returns to
  tp_result,         \* value the last trigger_pipeline call returned
  failure_data,      \* failure_data of handle_failure
  hf_type,           \* pipeline_type of handle_failure
  attempt,           \* loop variable of handle_failure
  fix_log,           \* the fix attempts of the auto-fix cycle, in order
  hf_alert_base,     \* Len(alerts) when handle_failure was entered
  trigger_log,       \* every trigger_pipeline call made, in order, with its result
  running,           \* CICDOrchestrator.running
  monitor_thread,    \* self.monitor_thread: index of the thread, 0 when None
  repository,        \* config project.repository: TRUE when a URL is configured
  repo_path,         \* self.repo_path
  last_commit_sha,   \* self.last_commit_sha
  local_head,        \* repo.head.commit of the working copy
  origin_ref,        \* repo.refs["origin/<branch>"].commit of the working copy
  remote_head,       \* head of the branch in the remote repository
  polling_interval,  \* config orchestrator.polling_interval
  monitor_threads,   \* the threads created by start(), each inside _monitor_loop
  s_pc,              \* position of the thread that calls start() and stop()
  s_calls,           \* start() and stop() calls made
  s_starts,          \* start() calls that found the orchestrator stopped
  contexts,          \* the context dictionaries trigger_pipeline has built, in order
  work_dir,          \* the directory <workspace>/repo: absent, or the clone some run made
  r_pc,              \* per caller: position of its trigger_pipeline("build") call
  r_ctx,             \* per caller: index in contexts of the context its run holds
  r_stage,           \* per caller: index of the stage its run is at
  r_calls,           \* per caller: trigger_pipeline calls made
  alert_calls,       \* the Alerter method called for each entry of alerts
  components,        \* HealthChecker.components, in insertion order
  health_report,     \* value the last check_health call returned
  check_outcomes,    \* what each check function did in the last check_health call
  af_pc,             \* position of the thread inside AIFixer.apply_fix
  af_fix,            \* the fix argument: its number of files and of commands
  af_repo,           \* the repo_path argument
  af_i,              \* index of the file or command the loop is at
  af_results,        \* the results dictionary of apply_fix
  af_log,            \* the writes and commands apply_fix has made, in order
  track_calls        \* the calls a client of the PipelineMonitor has made, in order

engine_vars == <<e_pc, e_id, e_stages, e_stage, e_task, e_result, task_log>>
cancel_vars == <<c_pc, c_id, c_ret, c_calls, cancel_called, cancel_true>>
orch_vars == <<config, ai_fixer, alerts, metrics, o_pc, tp_type, tp_return, tp_result,
               failure_data, hf_type, attempt, fix_log, hf_alert_base, trigger_log>>
repo_vars == <<repo_path, last_commit_sha, local_head, origin_ref, remote_head>>
control_vars == <<running, monitor_thread, s_pc, s_calls, s_starts>>
monitor_vars == <<repository, polling_interval, repo_vars, control_vars, monitor_threads>>
pipeline_vars == <<active_pipelines, clock, client_def, e_runs, engine_vars, cancel_vars,
                   orch_vars>>
run_vars == <<contexts, work_dir, r_pc, r_ctx, r_stage, r_calls>>
health_vars == <<components, health_report, check_outcomes>>
apply_vars == <<af_pc, af_fix, af_repo, af_i, af_results, af_log>>
other_vars == <<run_vars, alert_calls, health_vars, apply_vars, track_calls>>
vars == <<pipeline_vars, monitor_vars, other_vars>>

(***************************************************************************)
(* PipelineManager.execute_pipeline and _execute_stage                     *)
(***************************************************************************)
\* a record registered as already finished
NewPipelineInfo_Finished(id, pipeline_type, now) ==
  [id |-> id, type |-> pipeline_type, status |-> SUCCESS, start_time |-> now,
   end_time |-> now, stages |-> <<>>, error |-> None]

\* pipeline_info as created by execute_pipeline
NewPipelineInfo(id, pipeline_type, now) ==
  [id |-> id, type |-> pipeline_type, status |-> RUNNING, start_time |-> now,
   end_time |-> NoTime, stages |-> <<>>, error |-> None]

\* stage_result as created by _execute_stage
NewStageResult(stage) ==
  [name |-> stage.name, success |-> TRUE, tasks |-> <<>>, error |-> None]

\* a task loop that never notices a failed task
TaskFailed_Never(task_result) == FALSE

\* `if not task_result.get("success", False)`
TaskFailed(task_result) == ~task_result.success

\* the body of the task loop after execute_task returned
RecordTask(stage_result, task_result) ==
  IF TaskFailed(task_result)
    THEN [stage_result EXCEPT !.tasks = Append(@, task_result),
                              !.success = FALSE,
                              !.error = task_result.error]
    ELSE [stage_result EXCEPT !.tasks = Append(@, task_result)]

\* a stage loop that leaves out the last declared stage
StagePc_SkipLast(stages, s) ==
  IF s >= Len(stages) THEN "set_success"
  ELSE IF Len(stages[s].tasks) = 0 THEN "append"
  ELSE "task"

\* where the stage loop of execute_pipeline goes when it reaches stage s
StagePc(stages, s) ==
  IF s > Len(stages) THEN "set_success"
  ELSE IF Len(stages[s].tasks) = 0 THEN "append"
  ELSE "task"

StageResultAt(stages, s) ==
  IF s > Len(stages) THEN NewStageResult(Stage(None, <<>>))
  ELSE NewStageResult(stages[s])

\* execute_pipeline up to the first stage: allocate the id, register the record
ExecutePipelineBegin(pipeline_type, pipeline_def) ==
  /\ e_pc = "idle"
  /\ LET id == Len(active_pipelines) + 1
     IN /\ active_pipelines' =
             Append(active_pipelines, NewPipelineInfo(id, pipeline_type, clock + 1))
        /\ e_id' = id
  /\ clock' = clock + 1
  /\ e_stages' = pipeline_def.stages
  /\ e_stage' = 1
  /\ e_task' = 1
  /\ e_result' = StageResultAt(pipeline_def.stages, 1)
  /\ e_pc' = StagePc(pipeline_def.stages, 1)
  /\ UNCHANGED <<task_log, cancel_vars>>

\* _execute_stage: self.executor.execute_task(task, context) is called
StartTask ==
  /\ e_pc = "task"
  /\ e_pc' = "in_task"
  /\ task_log' = Append(task_log, [id |-> e_id, stage |-> e_stage, task |-> e_task,
                                   state |-> "started", error |-> None,
                                   outcome |-> None])
  /\ UNCHANGED <<active_pipelines, clock, e_id, e_stages, e_stage, e_task, e_result,
                 cancel_vars>>

\* a task loop that runs the same task again
NextTask_Again(t) == t

\* `for task in tasks`: the task that follows the t-th
NextTask(t) == t + 1

\* _execute_stage: execute_task returns; the result is recorded, a failure
\* breaks the task loop
FinishTask ==
  /\ e_pc = "in_task"
  /\ \E outcome \in ActionOutcomes(e_stages[e_stage].tasks[e_task].action) :
       LET task_result == ExecuteTask(e_stages[e_stage].tasks[e_task].action, outcome)
       IN
       /\ e_result' = RecordTask(e_result, task_result)
       /\ task_log' = [task_log EXCEPT ![Len(task_log)].state =
                                         IF task_result.success THEN "ok" ELSE "failed",
                                       ![Len(task_log)].error = task_result.error,
                                       ![Len(task_log)].outcome = outcome.kind]
       /\ IF ~e_result'.success \/ e_task = Len(e_stages[e_stage].tasks)
            THEN e_pc' = "append" /\ e_task' = e_task
            ELSE e_pc' = "task" /\ e_task' = NextTask(e_task)
  /\ UNCHANGED <<active_pipelines, clock, e_id, e_stages, e_stage, cancel_vars>>

\* execute_pipeline: pipeline_info["stages"].append(stage_result), then the
\* test of stage_result["success"]
AppendStage ==
  /\ e_pc = "append"
  /\ active_pipelines' =
       [active_pipelines EXCEPT ![e_id].stages = Append(@, e_result)]
  /\ IF ~e_result.success
       THEN /\ e_pc' = "set_failed"
            /\ UNCHANGED <<e_stage, e_task, e_result>>
       ELSE /\ e_stage' = e_stage + 1
            /\ e_task' = 1
            /\ e_result' = StageResultAt(e_stages, e_stage + 1)
            /\ e_pc' = StagePc(e_stages, e_stage + 1)
  /\ UNCHANGED <<clock, e_id, e_stages, task_log, cancel_vars>>

\* pipeline_info["status"] = PipelineStatus.FAILED
SetFailed ==
  /\ e_pc = "set_failed"
  /\ active_pipelines' = [active_pipelines EXCEPT ![e_id].status = FAILED]
  /\ e_pc' = "failed_end"
  /\ UNCHANGED <<clock, e_id, e_stages, e_stage, e_task, e_result, task_log, cancel_vars>>

\* pipeline_info["end_time"] = now; pipeline_info["error"] = ...; return
FailedEnd ==
  /\ e_pc = "failed_end"
  /\ active_pipelines' = [active_pipelines EXCEPT ![e_id].end_time = clock + 1,
                                                  ![e_id].error = e_result.error]
  /\ clock' = clock + 1
  /\ e_pc' = "returned"
  /\ UNCHANGED <<e_id, e_stages, e_stage, e_task, e_result, task_log, cancel_vars>>

\* pipeline_info["status"] = PipelineStatus.SUCCESS
SetSuccess ==
  /\ e_pc = "set_success"
  /\ active_pipelines' = [active_pipelines EXCEPT ![e_id].status = SUCCESS]
  /\ e_pc' = "success_end"
  /\ UNCHANGED <<clock, e_id, e_stages, e_stage, e_task, e_result, task_log, cancel_vars>>

\* pipeline_info["end_time"] = now; return
SuccessEnd ==
  /\ e_pc = "success_end"
  /\ active_pipelines' = [active_pipelines EXCEPT ![e_id].end_time = clock + 1]
  /\ clock' = clock + 1
  /\ e_pc' = "returned"
  /\ UNCHANGED <<e_id, e_stages, e_stage, e_task, e_result, task_log, cancel_vars>>

\* one step of the thread that is inside execute_pipeline
EngineStep ==
  \/ StartTask
  \/ FinishTask
  \/ AppendStage
  \/ SetFailed
  \/ FailedEnd
  \/ SetSuccess
  \/ SuccessEnd

(***************************************************************************)
(* PipelineManager.cancel_pipeline, called from another thread             *)
(***************************************************************************)
\* a cancel_pipeline that does not look at the status
CancelAllowed_Always(pipeline) == TRUE

\* `pipeline["status"] == PipelineStatus.RUNNING`
CancelAllowed(pipeline) == pipeline.status = RUNNING

\* the two tests of cancel_pipeline; `return False` when either fails
CancelCheck(pipeline_id) ==
  /\ c_pc = "idle"
  /\ c_calls < MaxCancels
  /\ c_calls' = c_calls + 1
  /\ c_id' = pipeline_id
  /\ cancel_called' = cancel_called \cup {pipeline_id}
  /\ IF pipeline_id \in DOMAIN active_pipelines
          /\ CancelAllowed(active_pipelines[pipeline_id])
       THEN c_pc' = "set_status" /\ c_ret' = "none"
       ELSE c_pc' = "idle" /\ c_ret' = "False"
  /\ UNCHANGED <<active_pipelines, clock, cancel_true>>

\* pipeline["status"] = PipelineStatus.CANCELLED
CancelSetStatus ==
  /\ c_pc = "set_status"
  /\ active_pipelines' = [active_pipelines EXCEPT ![c_id].status = CANCELLED]
  /\ c_pc' = "set_end"
  /\ UNCHANGED <<clock, c_id, c_ret, c_calls, cancel_called, cancel_true>>

\* pipeline["end_time"] = datetime.now(); return True
CancelSetEnd ==
  /\ c_pc = "set_end"
  /\ active_pipelines' = [active_pipelines EXCEPT ![c_id].end_time = clock + 1]
  /\ clock' = clock + 1
  /\ c_pc' = "idle"
  /\ c_ret' = "True"
  /\ cancel_true' = cancel_true \cup {c_id}
  /\ UNCHANGED <<c_id, c_calls, cancel_called>>

\* one step of a thread that calls cancel_pipeline; id 0 is never registered
CancelStep ==
  \/ \E pipeline_id \in 0..Len(active_pipelines) : CancelCheck(pipeline_id)
  \/ CancelSetStatus
  \/ CancelSetEnd

(***************************************************************************)
(* A client of PipelineManager: it executes its definition MaxRuns times   *)
(* while another thread cancels runs.                                      *)
(***************************************************************************)
ClientExecute ==
  /\ e_pc = "idle"
  /\ e_runs < MaxRuns
  /\ e_runs' = e_runs + 1
  /\ ExecutePipelineBegin("build", client_def)
  /\ UNCHANGED <<client_def, orch_vars>>

\* execute_pipeline has returned pipeline_info to the client
ClientReturn ==
  /\ e_pc = "returned"
  /\ e_pc' = "idle"
  /\ UNCHANGED <<active_pipelines, clock, client_def, e_runs, e_id, e_stages, e_stage,
                 e_task, e_result, task_log, cancel_vars, orch_vars>>

(***************************************************************************)
(* CICDOrchestrator                                                        *)
(***************************************************************************)
\* the keys of the configuration the orchestrator reads, with the defaults
\* of its config.get(...) calls
DefaultConfig ==
  [max_fix_attempts |-> 3, auto_fix_enabled |-> TRUE, auto_deploy |-> FALSE,
   enabled |-> [t \in PipelineTypes |-> TRUE]]

Configs ==
  [max_fix_attempts : 0..MaxFixAttempts, auto_fix_enabled : BOOLEAN,
   auto_deploy : BOOLEAN, enabled : [PipelineTypes -> BOOLEAN]]

\* What trigger_pipeline returns: the record of the run (the very dictionary
\* the registry holds, named by its id), or a dictionary built on the spot.
RunResult(id) == [ref |-> id, status |-> None, error |-> None]
Literal(status, error) == [ref |-> 0, status |-> status, error |-> error]

\* result.get("status"), result.get("error"), result.get("type", "unknown")
ResultStatus(result) ==
  IF result.ref # 0 THEN active_pipelines[result.ref].status ELSE result.status
ResultError(result) ==
  IF result.ref # 0 THEN active_pipelines[result.ref].error ELSE result.error
ResultType(result) ==
  IF result.ref # 0 THEN active_pipelines[result.ref].type ELSE "unknown"

\* Alerter.send_alert appends one alert; the orchestrator passes no
\* metadata, which send_alert stores as an empty dictionary
Alert(level, title, pipeline_type, n) ==
  [level |-> level, title |-> title, type |-> pipeline_type, attempt |-> n,
   metadata |-> {}]

\* PipelineMonitor.track_pipeline_start followed by track_pipeline_end
\* a metric that track_pipeline_end has not reached has no duration key
NoDuration == 0 - 1

TrackStart(ms, pipeline_id, pipeline_type) ==
  Append(ms, [pipeline_id |-> pipeline_id, type |-> pipeline_type, status |-> "running",
              duration |-> NoDuration])
\* a loop that goes on to the last metric of the id
FirstMetric_Last(ms, pipeline_id) ==
  CHOOSE i \in DOMAIN ms :
    /\ ms[i].pipeline_id = pipeline_id
    /\ \A j \in (i + 1)..Len(ms) : ms[j].pipeline_id # pipeline_id

\* `for metric in self.metrics: if metric["pipeline_id"] == pipeline_id:
\* ... break`
FirstMetric(ms, pipeline_id) ==
  CHOOSE i \in DOMAIN ms :
    /\ ms[i].pipeline_id = pipeline_id
    /\ \A j \in 1..(i - 1) : ms[j].pipeline_id # pipeline_id
TrackEnd(ms, pipeline_id, status, duration) ==
  IF \E i \in DOMAIN ms : ms[i].pipeline_id = pipeline_id
    THEN [ms EXCEPT ![FirstMetric(ms, pipeline_id)].status = status,
                    ![FirstMetric(ms, pipeline_id)].duration = duration]
    ELSE ms

\* the duration trigger_pipeline computes from the run's record
RunDuration(info) ==
  IF info.start_time # NoTime /\ info.end_time # NoTime
    THEN info.end_time - info.start_time
    ELSE 0

\* os.path.join(workspace, "repo"), of _setup_repository and of _git_clone
RepoDir == "repo"

\* the context dictionary trigger_pipeline builds for one call
NewContext(path) ==
  [repository |-> "url", branch |-> "main", workspace |-> "workspace", repo_path |-> path]

\* a call that returned before it built a context
NoContext ==
  [repository |-> None, branch |-> None, workspace |-> None, repo_path |-> None]

\* the entry of trigger_log for a trigger_pipeline call: the type asked for,
\* the place of the call, the status of the value it returned, and the
\* context it built from the configuration and self.repo_path
Triggered(pipeline_type, return_to, status) ==
  [type |-> pipeline_type, from |-> return_to, status |-> status,
   context |-> IF status \in {"disabled", "error"} THEN NoContext
               ELSE NewContext(repo_path)]

\* a trigger_pipeline that does not read the enabled switch
PipelineEnabled_Always(cfg, pipeline_type) == TRUE

\* config pipelines.<type>.enabled, True for a type the configuration does
\* not name
PipelineEnabled(cfg, pipeline_type) ==
  pipeline_type \in PipelineTypes => cfg.enabled[pipeline_type]

\* trigger_pipeline up to the call of execute_pipeline; it returns at once
\* for a disabled pipeline and for a type without a definition
TriggerPipeline(pipeline_type, return_to) ==
  /\ tp_type' = pipeline_type
  /\ IF ~PipelineEnabled(config, pipeline_type)
       THEN /\ tp_result' = Literal("disabled", None)
            /\ trigger_log' =
                 Append(trigger_log, Triggered(pipeline_type, return_to, "disabled"))
            /\ o_pc' = return_to
            /\ UNCHANGED <<active_pipelines, clock, engine_vars, tp_return>>
     ELSE IF pipeline_type \notin DOMAIN pipeline_definitions
       THEN /\ tp_result' = Literal("error", "Unknown pipeline")
            /\ trigger_log' =
                 Append(trigger_log, Triggered(pipeline_type, return_to, "error"))
            /\ o_pc' = return_to
            /\ UNCHANGED <<active_pipelines, clock, engine_vars, tp_return>>
     ELSE /\ ExecutePipelineBegin(pipeline_type, pipeline_definitions[pipeline_type])
          /\ trigger_log' =
               Append(trigger_log, Triggered(pipeline_type, return_to, None))
          /\ o_pc' = "executing"
          /\ tp_return' = return_to
          /\ UNCHANGED tp_result
  /\ UNCHANGED <<cancel_vars, metrics, alerts>>

\* trigger_pipeline after execute_pipeline returned: metrics, alert, return
\* a trigger_pipeline that announces a failed run at the severity of an
\* exhausted cycle
RunAlert_Critical(success, pipeline_type) ==
  IF success THEN Alert("info", "Pipeline Succeeded", pipeline_type, 0)
  ELSE Alert("critical", "Pipeline Failed", pipeline_type, 0)

\* the alert trigger_pipeline sends once execute_pipeline has returned
RunAlert(success, pipeline_type) ==
  IF success THEN Alert("info", "Pipeline Succeeded", pipeline_type, 0)
  ELSE Alert("error", "Pipeline Failed", pipeline_type, 0)

TriggerPipelineReturn ==
  /\ o_pc = "executing"
  /\ e_pc = "returned"
  /\ e_pc' = "idle"
  /\ LET success == active_pipelines[e_id].status = SUCCESS
     IN /\ metrics' = TrackEnd(TrackStart(metrics, e_id, tp_type), e_id,
                               IF success THEN "success" ELSE "failure",
                               RunDuration(active_pipelines[e_id]))
        /\ alerts' = Append(alerts, RunAlert(success, tp_type))
  /\ tp_result' = RunResult(e_id)
  /\ trigger_log' =
       [trigger_log EXCEPT ![Len(trigger_log)].status = active_pipelines[e_id].status]
  /\ o_pc' = tp_return
  /\ UNCHANGED <<active_pipelines, clock, client_def, e_runs, e_id, e_stages, e_stage,
                 e_task, e_result, task_log, cancel_vars, config, ai_fixer, tp_type,
                 tp_return, failure_data, hf_type, attempt, fix_log, hf_alert_base>>

\* _trigger_ci_pipeline: build_result = self.trigger_pipeline("build")
TriggerCI ==
  /\ o_pc = "idle"
  /\ TriggerPipeline("build", "ci_build")
  /\ UNCHANGED <<client_def, e_runs, config, ai_fixer, failure_data, hf_type, attempt,
                 fix_log, hf_alert_base>>

\* a loop that stops one attempt early: range(1, max_attempts)
FixAttempts_OneShort(max_attempts) == 1..(max_attempts - 1)

\* `for attempt in range(1, max_attempts + 1)`
FixAttempts(max_attempts) == 1..max_attempts

\* a handle_failure that ignores the switch
AutoFixEnabled_Always(cfg) == TRUE

\* config orchestrator.auto_fix_enabled, as handle_failure reads it
AutoFixEnabled(cfg) == cfg.auto_fix_enabled

\* handle_failure up to the loop
HandleFailure(data) ==
  /\ failure_data' = data
  /\ hf_type' = ResultType(data)
  /\ hf_alert_base' = Len(alerts)
  /\ fix_log' = <<>>
  /\ attempt' = 1
  /\ o_pc' = IF ~AutoFixEnabled(config) THEN "done"
             ELSE IF 1 \in FixAttempts(config.max_fix_attempts) THEN "fix"
             ELSE "exhausted"

\* a chain that goes on whatever the run returned
ChainSucceeded_Always(result) == TRUE

\* `if build_result.get("status") == PipelineStatus.SUCCESS`, and the same
\* test of test_result
ChainSucceeded(result) == ResultStatus(result) = SUCCESS

\* _trigger_ci_pipeline after the build run
CIAfterBuild ==
  /\ o_pc = "ci_build"
  /\ IF ChainSucceeded(tp_result)
       THEN /\ TriggerPipeline("test", "ci_test")
            /\ UNCHANGED <<failure_data, hf_type, attempt, fix_log, hf_alert_base>>
       ELSE /\ HandleFailure(tp_result)
            /\ UNCHANGED <<active_pipelines, clock, engine_vars, cancel_vars, metrics,
                           alerts, tp_type, tp_return, tp_result, trigger_log>>
  /\ UNCHANGED <<client_def, e_runs, config, ai_fixer>>

\* _trigger_ci_pipeline after the test run
CIAfterTest ==
  /\ o_pc = "ci_test"
  /\ IF ChainSucceeded(tp_result)
       THEN /\ IF config.auto_deploy
                 THEN TriggerPipeline("deploy", "done")
                 ELSE /\ o_pc' = "done"
                      /\ UNCHANGED <<active_pipelines, clock, engine_vars, cancel_vars,
                                     metrics, alerts, tp_type, tp_return, tp_result,
                                     trigger_log>>
            /\ UNCHANGED <<failure_data, hf_type, attempt, fix_log, hf_alert_base>>
       ELSE /\ HandleFailure(tp_result)
            /\ UNCHANGED <<active_pipelines, clock, engine_vars, cancel_vars, metrics,
                           alerts, tp_type, tp_return, tp_result, trigger_log>>
  /\ UNCHANGED <<client_def, e_runs, config, ai_fixer>>

\* BuildFixer.analyze_build_failure: the error type the keywords give
AnalyzeBuildFailure(error_logs) ==
  CASE error_logs = "ModuleNotFoundError: No module named 'x'" -> "dependency"
    [] error_logs = "main.c:1: error: undefined reference" -> "compilation"
    [] error_logs = "Permission denied" -> "configuration"
    [] error_logs = "[Errno 13] Permission denied: 'repo'" -> "configuration"
    [] OTHER -> "unknown"

\* a fix result: its "success" entry, the number of files and of commands
\* of the fix descriptor behind it, and whether apply_fix was called on it
FixResult(success, files, commands, applied) ==
  [success |-> success, files |-> files, commands |-> commands, applied |-> applied]

\* no fixer, a failed analysis or generation, or an apply_fix with errors
NoFix == FixResult(FALSE, 0, 0, FALSE)

\* apply_fix returned success for a generated fix: no write and no command
\* of it failed
AppliedFix == FixResult(TRUE, 1, 1, TRUE)

\* _fix_with_ai: the fix results it can produce
FixWithAI == IF ai_fixer THEN {AppliedFix, NoFix} ELSE {NoFix}

\* _fix_build_failure
FixBuildFailure(data) ==
  LET error_type == AnalyzeBuildFailure(ResultError(data))
  IN CASE error_type = "dependency" -> {FixResult(TRUE, 0, 1, FALSE)}
       [] error_type = "compilation" -> IF ai_fixer THEN {AppliedFix, NoFix} ELSE {NoFix}
       [] error_type = "configuration" -> {FixResult(TRUE, 0, 0, FALSE)}
       [] OTHER -> FixWithAI

\* _attempt_fix: routes on failure_data.get("type", "unknown")
AttemptFix(data) ==
  IF ResultType(data) = "build" THEN FixBuildFailure(data) ELSE FixWithAI

\* a handle_failure that returns after its last attempt without a word
NextAttemptPc_Silent ==
  IF attempt + 1 \in FixAttempts(config.max_fix_attempts) THEN "fix" ELSE "done"

\* where handle_failure goes after the attempt `attempt` did not resolve
NextAttemptPc ==
  IF attempt + 1 \in FixAttempts(config.max_fix_attempts) THEN "fix" ELSE "exhausted"

\* a handle_failure that retries whatever the fix result says
FixSucceeded_Always(fix_result) == TRUE

\* `if fix_result.get("success")`
FixSucceeded(fix_result) == fix_result.success

\* one pass of the loop of handle_failure up to the retry:
\* fix_result = self._attempt_fix(failure_data)
FixAttempt ==
  /\ o_pc = "fix"
  /\ \E fix_result \in AttemptFix(failure_data) :
       /\ fix_log' = Append(fix_log, [attempt |-> attempt, type |-> ResultType(failure_data),
                                      error |-> ResultError(failure_data),
                                      fixed |-> fix_result.success, retry |-> None,
                                      fix |-> fix_result])
       /\ IF FixSucceeded(fix_result)
            THEN /\ TriggerPipeline(hf_type, "retried")
                 /\ UNCHANGED attempt
            ELSE /\ o_pc' = NextAttemptPc
                 /\ attempt' = attempt + 1
                 /\ UNCHANGED <<active_pipelines, clock, engine_vars, cancel_vars, metrics,
                                alerts, tp_type, tp_return, tp_result, trigger_log>>
  /\ UNCHANGED <<client_def, e_runs, config, ai_fixer, failure_data, hf_type, hf_alert_base>>

\* a handle_failure that never recognises a successful retry
RetrySucceeded_Never(retry_result) == FALSE

\* `if retry_result.get("status") == PipelineStatus.SUCCESS`
RetrySucceeded(retry_result) == ResultStatus(retry_result) = SUCCESS

\* a handle_failure that keeps the failure data it was entered with
NextFailureData_Keep(data, retry_result) == data

\* `failure_data = retry_result` after a retry that did not succeed
NextFailureData(data, retry_result) == retry_result

\* the loop of handle_failure after retry_result = self.trigger_pipeline(...)
AfterRetry ==
  /\ o_pc = "retried"
  /\ fix_log' = [fix_log EXCEPT ![Len(fix_log)].retry = ResultStatus(tp_result)]
  /\ IF RetrySucceeded(tp_result)
       THEN /\ alerts' = Append(alerts, Alert("info", "Fixed Successfully", hf_type, attempt))
            /\ o_pc' = "done"
            /\ UNCHANGED <<failure_data, attempt>>
       ELSE /\ failure_data' = NextFailureData(failure_data, tp_result)
            /\ o_pc' = NextAttemptPc
            /\ attempt' = attempt + 1
            /\ UNCHANGED alerts
  /\ UNCHANGED <<active_pipelines, clock, client_def, e_runs, engine_vars, cancel_vars,
                 config, ai_fixer, metrics, tp_type, tp_return, tp_result, hf_type,
                 hf_alert_base, trigger_log>>

\* handle_failure after the loop: all attempts exhausted
Exhausted ==
  /\ o_pc = "exhausted"
  /\ alerts' = Append(alerts, Alert("critical", "Auto-Fix Failed", hf_type,
                                    config.max_fix_attempts))
  /\ o_pc' = "done"
  /\ UNCHANGED <<active_pipelines, clock, client_def, e_runs, engine_vars, cancel_vars,
                 config, ai_fixer, metrics, tp_type, tp_return, tp_result, failure_data,
                 hf_type, attempt, fix_log, hf_alert_base, trigger_log>>

(***************************************************************************)
(* The Change Monitor: _monitor_loop and monitor_changes, run by every     *)
(* thread that start() creates                                             *)
(***************************************************************************)
\* the values of orchestrator.polling_interval: OrchestratorConfig declares
\* an int with default 60 and no validation
PollingIntervals == {-1, 0, 60}

\* stop(): self.monitor_thread.join(timeout=5)
JoinTimeout == 5

\* the local variable remote_sha of monitor_changes before its assignment
NoSha == 0 - 1

\* A thread inside _monitor_loop.  wait is the duration of its last completed
\* time.sleep (-1 before the first), epoch the count of effective start() calls at its last loop
\* test, remote_sha the local variable of monitor_changes; cmp, pulls, pulled
\* and base describe the iteration in progress: the outcome of the head
\* comparison, the pulls attempted, whether the pull succeeded, and
\* Len(trigger_log) when the iteration began.
Thread(pc) ==
  [pc |-> pc, wait |-> -1, epoch |-> 0, remote_sha |-> NoSha, cmp |-> None,
   pulls |-> 0, pulled |-> FALSE, base |-> 0]

Alive(t) == monitor_threads[t].pc \notin {"exited", "crashed"}

\* a loop that never looks at the flag
LoopContinues_Always(flag) == TRUE

\* the condition of `while self.running:`
LoopContinues(flag) == flag

\* `while self.running:`
LoopTest(t) ==
  /\ monitor_threads[t].pc = "loop_test"
  /\ monitor_threads' =
       [monitor_threads EXCEPT ![t] =
          IF LoopContinues(running)
            THEN [@ EXCEPT !.pc = "monitor", !.epoch = s_starts, !.remote_sha = NoSha,
                           !.cmp = None, !.pulls = 0, !.pulled = FALSE,
                           !.base = Len(trigger_log)]
            ELSE [@ EXCEPT !.pc = "exited"]]
  /\ UNCHANGED <<pipeline_vars, repository, polling_interval, repo_vars, control_vars>>

\* monitor_changes up to origin.fetch(): it returns at once without a
\* repo_path; git.Repo(...) or the fetch may raise, which the except clause of
\* monitor_changes logs
MonitorFetch(t) ==
  /\ monitor_threads[t].pc = "monitor"
  /\ IF repo_path = None
       THEN /\ monitor_threads' = [monitor_threads EXCEPT ![t].pc = "sleep"]
            /\ UNCHANGED origin_ref
       ELSE \/ /\ origin_ref' = remote_head
               /\ monitor_threads' = [monitor_threads EXCEPT ![t].pc = "compare"]
            \/ /\ monitor_threads' = [monitor_threads EXCEPT ![t].pc = "sleep"]
               /\ UNCHANGED origin_ref
  /\ UNCHANGED <<pipeline_vars, repository, polling_interval, repo_path, last_commit_sha,
                 local_head, remote_head, control_vars>>

\* a comparison that always finds new commits
HeadsDiffer_Always(current_sha, remote_sha) == TRUE

\* `if current_sha != remote_sha`
HeadsDiffer(current_sha, remote_sha) == current_sha # remote_sha

\* monitor_changes from current_sha = repo.head.commit.hexsha to the
\* comparison; it returns when the remote branch has no ref
MonitorCompare(t) ==
  /\ monitor_threads[t].pc = "compare"
  /\ \E found \in BOOLEAN :
       monitor_threads' =
         [monitor_threads EXCEPT ![t] =
            IF ~found THEN [@ EXCEPT !.pc = "sleep"]
            ELSE [@ EXCEPT !.pc = IF HeadsDiffer(local_head, origin_ref)
                                    THEN "pull" ELSE "sleep",
                           !.cmp = IF local_head = origin_ref THEN "equal" ELSE "differ",
                           !.remote_sha = origin_ref]]
  /\ UNCHANGED <<pipeline_vars, repository, polling_interval, repo_vars, control_vars>>

\* repo.git.pull('origin', branch); self.last_commit_sha = remote_sha.
\* The pull merges whatever the remote branch holds by now; when it raises,
\* the except clause of monitor_changes logs it.
MonitorPull(t) ==
  /\ monitor_threads[t].pc = "pull"
  /\ \/ /\ local_head' = remote_head
        /\ origin_ref' = remote_head
        /\ last_commit_sha' = monitor_threads[t].remote_sha
        /\ monitor_threads' = [monitor_threads EXCEPT ![t].pc = "trigger",
                                                      ![t].pulls = @ + 1,
                                                      ![t].pulled = TRUE]
     \/ /\ monitor_threads' = [monitor_threads EXCEPT ![t].pc = "sleep",
                                                      ![t].pulls = @ + 1]
        /\ UNCHANGED <<local_head, origin_ref, last_commit_sha>>
  /\ UNCHANGED <<pipeline_vars, repository, polling_interval, repo_path, remote_head,
                 control_vars>>

\* self._trigger_ci_pipeline()
MonitorTrigger(t) ==
  /\ monitor_threads[t].pc = "trigger"
  /\ TriggerCI
  /\ monitor_threads' = [monitor_threads EXCEPT ![t].pc = "chain"]
  /\ UNCHANGED <<repository, polling_interval, repo_vars, control_vars>>

\* _trigger_ci_pipeline returns to monitor_changes, which returns to the loop;
\* the locals of the chain are gone
ChainReturn(t) ==
  /\ monitor_threads[t].pc = "chain"
  /\ o_pc = "done"
  /\ o_pc' = "idle"
  /\ tp_type' = None
  /\ tp_return' = None
  /\ tp_result' = Literal(None, None)
  /\ failure_data' = Literal(None, None)
  /\ hf_type' = None
  /\ attempt' = 0
  /\ fix_log' = <<>>
  /\ hf_alert_base' = 0
  /\ monitor_threads' = [monitor_threads EXCEPT ![t].pc = "sleep"]
  /\ UNCHANGED <<active_pipelines, clock, client_def, e_runs, engine_vars, cancel_vars,
                 config, ai_fixer, alerts, metrics, trigger_log, repository,
                 polling_interval, repo_vars, control_vars>>

\* time.sleep(secs): ValueError for a negative length, else a wait of secs
SleepRaises(secs) == secs < 0

\* `time.sleep(polling_interval)` in the try block of _monitor_loop
MonitorSleep(t) ==
  /\ monitor_threads[t].pc = "sleep"
  /\ monitor_threads' =
       [monitor_threads EXCEPT ![t] =
          IF SleepRaises(polling_interval)
            THEN [@ EXCEPT !.pc = "except_sleep"]
            ELSE [@ EXCEPT !.pc = "loop_test", !.wait = polling_interval]]
  /\ UNCHANGED <<pipeline_vars, repository, polling_interval, repo_vars, control_vars>>

\* `time.sleep(polling_interval)` in the except clause of _monitor_loop: an
\* exception raised here leaves _monitor_loop and ends the thread
MonitorExceptSleep(t) ==
  /\ monitor_threads[t].pc = "except_sleep"
  /\ monitor_threads' =
       [monitor_threads EXCEPT ![t] =
          IF SleepRaises(polling_interval)
            THEN [@ EXCEPT !.pc = "crashed"]
            ELSE [@ EXCEPT !.pc = "loop_test", !.wait = polling_interval]]
  /\ UNCHANGED <<pipeline_vars, repository, polling_interval, repo_vars, control_vars>>

\* somebody pushes a commit to the monitored branch
Push ==
  /\ remote_head < MaxPushes
  /\ remote_head' = remote_head + 1
  /\ UNCHANGED <<pipeline_vars, repository, polling_interval, repo_path, last_commit_sha,
                 local_head, origin_ref, control_vars, monitor_threads>>

(***************************************************************************)
(* CICDOrchestrator.start and stop, called by the thread that owns the     *)
(* orchestrator                                                            *)
(***************************************************************************)
\* start() up to `self.running = True`; it returns when already running
StartCall ==
  /\ s_pc = "idle"
  /\ s_calls < MaxCalls
  /\ s_calls' = s_calls + 1
  /\ IF running
       THEN UNCHANGED <<running, s_pc, s_starts>>
       ELSE /\ running' = TRUE
            /\ s_pc' = "start_setup"
            /\ s_starts' = s_starts + 1
  /\ UNCHANGED <<pipeline_vars, repository, polling_interval, repo_vars, monitor_thread,
                 monitor_threads>>

\* _setup_repository: nothing without a configured repository; else repo_path
\* is set, and opening or cloning either gives the head or raises, which
\* sends an error alert
StartSetup ==
  /\ s_pc = "start_setup"
  /\ s_pc' = "start_thread"
  /\ IF ~repository
       THEN UNCHANGED <<repo_vars, alerts>>
       ELSE /\ repo_path' = "repo"
            /\ \/ /\ local_head' = remote_head
                  /\ origin_ref' = remote_head
                  /\ last_commit_sha' = remote_head
                  /\ UNCHANGED alerts
               \/ /\ alerts' = Append(alerts,
                                      Alert("error", "Repository Setup Failed", None, 0))
                  /\ UNCHANGED <<local_head, origin_ref, last_commit_sha>>
            /\ UNCHANGED remote_head
  /\ UNCHANGED <<active_pipelines, clock, client_def, e_runs, engine_vars, cancel_vars,
                 config, ai_fixer, metrics, o_pc, tp_type, tp_return, tp_result,
                 failure_data, hf_type, attempt, fix_log, hf_alert_base, trigger_log,
                 repository, polling_interval, running, monitor_thread, s_calls, s_starts,
                 monitor_threads>>

\* start(): the monitor thread is created and started (git.monitor_enabled
\* at its default), then the "Started" alert is sent
StartThread ==
  /\ s_pc = "start_thread"
  /\ s_pc' = "idle"
  /\ monitor_threads' = Append(monitor_threads, Thread("loop_test"))
  /\ monitor_thread' = Len(monitor_threads) + 1
  /\ alerts' = Append(alerts, Alert("info", "CI/CD Orchestrator Started", None, 0))
  /\ UNCHANGED <<active_pipelines, clock, client_def, e_runs, engine_vars, cancel_vars,
                 config, ai_fixer, metrics, o_pc, tp_type, tp_return, tp_result,
                 failure_data, hf_type, attempt, fix_log, hf_alert_base, trigger_log,
                 repository, polling_interval, repo_vars, running, s_calls, s_starts>>

\* stop(): `self.running = False`
StopCall ==
  /\ s_pc = "idle"
  /\ s_calls < MaxCalls
  /\ s_calls' = s_calls + 1
  /\ running' = FALSE
  /\ s_pc' = "stop_join"
  /\ UNCHANGED <<pipeline_vars, repository, polling_interval, repo_vars, monitor_thread,
                 s_starts, monitor_threads>>

\* a thread that can stay where it is for longer than the join waits: it
\* sleeps polling_interval, or it is in a fetch, a pull or a pipeline run
OutlastsJoin(t) ==
  \/ /\ monitor_threads[t].pc \in {"sleep", "except_sleep"}
     /\ polling_interval > JoinTimeout
  \/ monitor_threads[t].pc \in {"compare", "pull", "chain"}

\* stop(): the join returns when the thread has ended or after the timeout;
\* then the "Stopped" alert is sent
StopJoin ==
  /\ s_pc = "stop_join"
  /\ IF monitor_thread = 0 THEN TRUE
     ELSE ~Alive(monitor_thread) \/ OutlastsJoin(monitor_thread)
  /\ s_pc' = "idle"
  /\ alerts' = Append(alerts, Alert("info", "CI/CD Orchestrator Stopped", None, 0))
  /\ UNCHANGED <<active_pipelines, clock, client_def, e_runs, engine_vars, cancel_vars,
                 config, ai_fixer, metrics, o_pc, tp_type, tp_return, tp_result,
                 failure_data, hf_type, attempt, fix_log, hf_alert_base, trigger_log,
                 repository, polling_interval, repo_vars, running, monitor_thread,
                 s_calls, s_starts, monitor_threads>>

\* PipelineManager.__init__ and the threads before their first call
InitManager ==
  /\ active_pipelines = <<>>
  /\ clock = 0
  /\ e_pc = "idle"
  /\ e_id = 0
  /\ e_stages = <<>>
  /\ e_stage = 1
  /\ e_task = 1
  /\ e_result = StageResultAt(<<>>, 1)
  /\ e_runs = 0
  /\ task_log = <<>>
  /\ c_pc = "idle"
  /\ c_id = 0
  /\ c_ret = "none"
  /\ c_calls = 0
  /\ cancel_called = {}
  /\ cancel_true = {}

\* CICDOrchestrator.__init__ apart from its configuration
InitOrchestrator ==
  /\ alerts = <<>>
  /\ metrics = <<>>
  /\ o_pc = "idle"
  /\ tp_type = None
  /\ tp_return = None
  /\ tp_result = Literal(None, None)
  /\ failure_data = Literal(None, None)
  /\ hf_type = None
  /\ attempt = 0
  /\ fix_log = <<>>
  /\ hf_alert_base = 0
  /\ trigger_log = <<>>

\* CICDOrchestrator.__init__: not running, no thread, no repo_path
InitControl ==
  /\ running = FALSE
  /\ monitor_thread = 0
  /\ repo_path = None
  /\ last_commit_sha = None
  /\ local_head = 0
  /\ origin_ref = 0
  /\ remote_head = 0
  /\ monitor_threads = <<>>
  /\ s_pc = "idle"
  /\ s_calls = 0
  /\ s_starts = 0

(***************************************************************************)
(* Runs of the build pipeline started by concurrent trigger_pipeline calls *)
(* on one orchestrator (the monitor thread's chain and a call from another *)
(* thread), one step per file-system operation and per task.               *)
(***************************************************************************)
Callers == {"monitor", "api"}

\* the directory <workspace>/repo: absent, or the clone made by run `by`
\* (0: by _setup_repository)
NoDirectory == [exists |-> FALSE, by |-> 0]
ClonedBy(by) == [exists |-> TRUE, by |-> by]

Executing(c) == r_pc[c] # "idle"
RunAction(c) == build_pipeline.stages[r_stage[c]].tasks[1].action

\* trigger_pipeline("build") up to the call of execute_pipeline
RunTrigger(c) ==
  /\ r_pc[c] = "idle"
  /\ r_calls[c] < MaxTriggers
  /\ contexts' = Append(contexts, NewContext(repo_path))
  /\ r_ctx' = [r_ctx EXCEPT ![c] = Len(contexts) + 1]
  /\ r_stage' = [r_stage EXCEPT ![c] = 1]
  /\ r_pc' = [r_pc EXCEPT ![c] = "task"]
  /\ r_calls' = [r_calls EXCEPT ![c] = @ + 1]
  /\ UNCHANGED work_dir

\* the engine after a task of a one-task stage: the next stage after a
\* success, the end of the run after a failure or after the last stage
RunAfter(c, success) ==
  IF success /\ r_stage[c] < Len(build_pipeline.stages)
    THEN /\ r_pc' = [r_pc EXCEPT ![c] = "task"]
         /\ r_stage' = [r_stage EXCEPT ![c] = @ + 1]
    ELSE /\ r_pc' = [r_pc EXCEPT ![c] = "idle"]
         /\ UNCHANGED r_stage

\* _git_clone up to the clone: an existing <workspace>/repo is removed, and
\* an exception of shutil.rmtree fails the task
GitCloneClean(c) ==
  /\ r_pc[c] = "task"
  /\ RunAction(c) = "git_clone"
  /\ IF ~work_dir.exists
       THEN /\ r_pc' = [r_pc EXCEPT ![c] = "clone"]
            /\ UNCHANGED <<work_dir, r_stage>>
       ELSE \E outcome \in {o \in ActionOutcomes("git_clone") : o.kind \in {"ok", "escaped"}} :
              IF outcome.kind = "ok"
                THEN /\ work_dir' = NoDirectory
                     /\ r_pc' = [r_pc EXCEPT ![c] = "clone"]
                     /\ UNCHANGED r_stage
                ELSE /\ RunAfter(c, ExecuteTask("git_clone", outcome).success)
                     /\ UNCHANGED work_dir
  /\ UNCHANGED <<contexts, r_ctx, r_calls>>

\* a clone that leaves the context as it found it
CloneWrites_Nothing(context) == context

\* context["repo_path"] = repo_path after a successful clone
CloneWrites(context) == [context EXCEPT !.repo_path = RepoDir]

\* git.Repo.clone_from and the write of context["repo_path"]; the clone
\* fails when the directory exists again
GitCloneFrom(c) ==
  /\ r_pc[c] = "clone"
  /\ \E outcome \in {o \in ActionOutcomes("git_clone") : o.kind \in {"ok", "raised"}} :
       /\ outcome.kind = "ok" => ~work_dir.exists
       /\ IF outcome.kind = "ok"
            THEN /\ work_dir' = ClonedBy(r_ctx[c])
                 /\ contexts' = [contexts EXCEPT ![r_ctx[c]] = CloneWrites(@)]
            ELSE UNCHANGED <<work_dir, contexts>>
       /\ RunAfter(c, ExecuteTask("git_clone", outcome).success)
  /\ UNCHANGED <<r_ctx, r_calls>>

\* _install_dependencies, _build_project and _create_archive work in
\* context["repo_path"]
RunCommand(c) ==
  /\ r_pc[c] = "task"
  /\ RunAction(c) # "git_clone"
  /\ \E outcome \in ActionOutcomes(RunAction(c)) :
       RunAfter(c, ExecuteTask(RunAction(c), outcome).success)
  /\ UNCHANGED <<contexts, work_dir, r_ctx, r_calls>>

\* no trigger_pipeline call in progress, no context built
InitRuns ==
  /\ contexts = <<>>
  /\ work_dir = NoDirectory
  /\ r_pc = [c \in Callers |-> "idle"]
  /\ r_ctx = [c \in Callers |-> 0]
  /\ r_stage = [c \in Callers |-> 1]
  /\ r_calls = [c \in Callers |-> 0]

(***************************************************************************)
(* Alerter (monitors/alerter.py), called by a client.  A severity argument *)
(* is a member of the AlertSeverity enum or a plain string.                *)
(***************************************************************************)
Member(value) == [kind |-> "enum", value |-> value]
Str(value) == [kind |-> "str", value |-> value]

\* str.capitalize() of a pipeline type
Capitalize(pipeline_type) ==
  CASE pipeline_type = "build" -> "Build"
    [] pipeline_type = "test" -> "Test"
    [] pipeline_type = "deploy" -> "Deploy"

\* send_alert(title, message, severity, metadata): the alert it appends;
\* level is severity.value when the argument has that attribute, else the
\* argument itself
SendAlert(title, message, severity, metadata) ==
  [level |-> severity.value, title |-> title, message |-> message,
   metadata |-> metadata]

\* the call send_pipeline_failure_alert makes, its arguments in the order
\* the code passes them
PipelineFailureAlert(pipeline_id, pipeline_type, error) ==
  SendAlert("error",
            Capitalize(pipeline_type) \o " Pipeline Failure",
            Str("Pipeline " \o pipeline_id \o " failed: " \o error),
            {<<"pipeline_id", pipeline_id>>, <<"pipeline_type", pipeline_type>>})

\* the level send_deployment_alert chooses
DeploymentLevel(status) == IF status = "success" THEN "info" ELSE "critical"

\* the call send_deployment_alert makes
DeploymentAlert(environment, status, details) ==
  SendAlert(DeploymentLevel(status),
            "Deployment to " \o environment,
            Str("Status: " \o status \o ". " \o details),
            {<<"environment", environment>>, <<"status", status>>})

\* get_alerts(level): every alert when level is None or empty
GetAlerts(level) ==
  LET HasLevel(a) == a.level = level
  IN IF level \in {None, ""} THEN alerts ELSE SelectSeq(alerts, HasLevel)

alerter_frame ==
  <<active_pipelines, clock, client_def, e_runs, engine_vars, cancel_vars, config,
    ai_fixer, metrics, o_pc, tp_type, tp_return, tp_result, failure_data, hf_type,
    attempt, fix_log, hf_alert_base, trigger_log, monitor_vars, run_vars, health_vars,
    apply_vars, track_calls>>

Called(method, status) == [method |-> method, status |-> status]

ClientSendAlert ==
  /\ Len(alerts) < MaxAlerts
  /\ \E severity \in {Member(l) : l \in {"info", "error"}} \cup {Str("warning")} :
       alerts' = Append(alerts, SendAlert("Test Title", "Test Message", severity, {}))
  /\ alert_calls' = Append(alert_calls, Called("send_alert", None))
  /\ UNCHANGED alerter_frame

ClientPipelineFailureAlert ==
  /\ Len(alerts) < MaxAlerts
  /\ \E pipeline_type \in {"build", "test"} :
       alerts' = Append(alerts, PipelineFailureAlert("p1", pipeline_type, "error msg"))
  /\ alert_calls' = Append(alert_calls, Called("send_pipeline_failure_alert", None))
  /\ UNCHANGED alerter_frame

ClientDeploymentAlert ==
  /\ Len(alerts) < MaxAlerts
  /\ \E status \in {"success", "failed"} :
       /\ alerts' = Append(alerts, DeploymentAlert("prod", status, "deployed"))
       /\ alert_calls' = Append(alert_calls, Called("send_deployment_alert", status))
  /\ UNCHANGED alerter_frame

\* Alerter.__init__
InitAlerter == alert_calls = <<>>

(***************************************************************************)
(* HealthChecker (monitors/health_checker.py).  A check function returns a *)
(* truthy value, returns a falsy value, or raises an Exception.            *)
(***************************************************************************)
ComponentNames == {"comp1", "comp2", "comp3"}
CheckResults == {"truthy", "falsy", "raises"}

\* an entry of self.components; checked tells whether check_health has run
\* the entry's check function
Component(name, status, checked) == [name |-> name, status |-> status, checked |-> checked]

Registered == {components[i].name : i \in DOMAIN components}
NoReport == [overall_status |-> None, components |-> [n \in {} |-> None]]

\* register_component: assigning an existing key keeps its place in the dict
RegisterComponent(name) ==
  /\ components' =
       IF name \in Registered
         THEN [i \in DOMAIN components |->
                 IF components[i].name = name THEN Component(name, "unknown", FALSE)
                 ELSE components[i]]
         ELSE Append(components, Component(name, "unknown", FALSE))
  /\ UNCHANGED <<health_report, check_outcomes>>

\* a check that does not leave overall_status alone
Degrades_OnlyFalsy(result) == result = "falsy"

\* lines 53-54 and 59: what sets overall_status to degraded
Degrades(result) == result # "truthy"

\* lines 50 and 57: the status one check gives its component
StatusAfter(result) ==
  CASE result = "truthy" -> "healthy"
    [] result = "falsy" -> "unhealthy"
    [] result = "raises" -> "error"

\* the for loop of check_health from the i-th component on: the try block
\* is inside the loop, so a check that raises is followed by the next one
RECURSIVE CheckFrom(_, _, _, _)
CheckFrom(i, comps, report, results) ==
  IF i > Len(comps) THEN [components |-> comps, report |-> report]
  ELSE LET name == comps[i].name
           status == StatusAfter(results[name])
       IN CheckFrom(i + 1,
                    [comps EXCEPT ![i] = Component(name, status, TRUE)],
                    [overall_status |-> IF Degrades(results[name]) THEN "degraded"
                                        ELSE report.overall_status,
                     components |-> [n \in DOMAIN report.components \cup {name} |->
                                       IF n = name THEN status
                                       ELSE report.components[n]]],
                    results)

CheckHealth ==
  \E results \in [Registered -> CheckResults] :
    LET done == CheckFrom(1, components,
                          [overall_status |-> "healthy", components |-> [n \in {} |-> None]],
                          results)
    IN /\ components' = done.components
       /\ health_report' = done.report
       /\ check_outcomes' = results

\* get_component_status
GetComponentStatus(name) ==
  IF name \in Registered
    THEN (CHOOSE c \in {components[i] : i \in DOMAIN components} : c.name = name).status
    ELSE "unknown"

\* HealthChecker.__init__
InitHealthChecker ==
  /\ components = <<>>
  /\ health_report = NoReport
  /\ check_outcomes = [n \in {} |-> None]

(***************************************************************************)
(* AIFixer.apply_fix(fix, repo_path), one step per file write and per      *)
(* command.  A write succeeds or raises; a command exits with code zero,   *)
(* exits non-zero, or subprocess.run raises (timeout).                     *)
(***************************************************************************)
CommandResults == {"zero", "nonzero", "raises"}

\* results as initialised at lines 329-334
NewResults == [success |-> TRUE, files_modified |-> <<>>, commands_executed |-> <<>>,
               errors |-> <<>>, error |-> None]

Written(n, ok) == [op |-> "write", n |-> n, result |-> IF ok THEN "ok" ELSE "raises"]
Ran(n, result) == [op |-> "run", n |-> n, result |-> result]

\* where the loops go after the i-th file
AfterFile(i) == IF i < af_fix.files THEN <<"files", i + 1>> ELSE <<"commands", 1>>

ApplyFixCall ==
  /\ af_pc = "idle"
  /\ af_results' = NewResults
  /\ af_pc' = IF af_fix.files > 0 THEN "files" ELSE "commands"
  /\ af_i' = 1
  /\ UNCHANGED <<af_fix, af_repo, af_log>>

\* the body of the file loop; os.path.join(repo_path, file_path) raises for
\* a repo_path of None, outside the inner try, which ends apply_fix in its
\* outer except clause
ApplyWriteFile ==
  /\ af_pc = "files"
  /\ IF af_repo = None
       THEN /\ af_results' = [af_results EXCEPT !.success = FALSE, !.error = "TypeError"]
            /\ af_pc' = "done"
            /\ UNCHANGED <<af_i, af_log>>
       ELSE \E ok \in BOOLEAN :
              /\ af_results' =
                   IF ok THEN [af_results EXCEPT !.files_modified = Append(@, af_i)]
                   ELSE [af_results EXCEPT !.errors = Append(@, "Failed to modify"),
                                           !.success = FALSE]
              /\ af_log' = Append(af_log, Written(af_i, ok))
              /\ af_pc' = AfterFile(af_i)[1]
              /\ af_i' = AfterFile(af_i)[2]
  /\ UNCHANGED <<af_fix, af_repo>>

\* the body of the command loop: every command of the list is run
ApplyRunCommand ==
  /\ af_pc = "commands"
  /\ af_i <= af_fix.commands
  /\ \E result \in CommandResults :
       /\ af_results' =
            CASE result = "zero" ->
                   [af_results EXCEPT !.commands_executed = Append(@, <<af_i, 0>>)]
              [] result = "nonzero" ->
                   [af_results EXCEPT !.commands_executed = Append(@, <<af_i, 1>>),
                                      !.errors = Append(@, "Command failed")]
              [] result = "raises" ->
                   [af_results EXCEPT !.errors = Append(@, "Failed to execute")]
       /\ af_log' = Append(af_log, Ran(af_i, result))
  /\ af_i' = af_i + 1
  /\ UNCHANGED <<af_pc, af_fix, af_repo>>

\* lines 388-391
ApplyReturn ==
  /\ af_pc = "commands"
  /\ af_i > af_fix.commands
  /\ af_results' = IF af_results.errors # <<>> THEN [af_results EXCEPT !.success = FALSE]
                   ELSE af_results
  /\ af_pc' = "done"
  /\ UNCHANGED <<af_fix, af_repo, af_i, af_log>>

\* no apply_fix call in progress
InitApplyFix ==
  /\ af_pc = "idle"
  /\ af_fix = [files |-> 0, commands |-> 0]
  /\ af_repo = None
  /\ af_i = 1
  /\ af_results = NewResults
  /\ af_log = <<>>

(***************************************************************************)
(* PipelineMonitor, called by a client: track_pipeline_start and           *)
(* track_pipeline_end with ids the client chooses, repeated ids included   *)
(***************************************************************************)
MetricIds == 1..2
TrackStatuses == {"success", "failure", "cancelled"}
Durations == {0, 5}

tracker_frame ==
  <<active_pipelines, clock, client_def, e_runs, engine_vars, cancel_vars, config,
    ai_fixer, alerts, o_pc, tp_type, tp_return, tp_result, failure_data, hf_type,
    attempt, fix_log, hf_alert_base, trigger_log, monitor_vars, run_vars, alert_calls,
    health_vars, apply_vars>>

ClientTrackStart ==
  /\ Len(track_calls) < MaxTracks
  /\ \E pipeline_id \in MetricIds, pipeline_type \in {"build", "test"} :
       /\ metrics' = TrackStart(metrics, pipeline_id, pipeline_type)
       /\ track_calls' = Append(track_calls, [method |-> "start", id |-> pipeline_id,
                                              status |-> "running",
                                              duration |-> NoDuration])
  /\ UNCHANGED tracker_frame

ClientTrackEnd ==
  /\ Len(track_calls) < MaxTracks
  /\ \E pipeline_id \in MetricIds, status \in TrackStatuses, duration \in Durations :
       /\ metrics' = TrackEnd(metrics, pipeline_id, status, duration)
       /\ track_calls' = Append(track_calls, [method |-> "end", id |-> pipeline_id,
                                              status |-> status, duration |-> duration])
  /\ UNCHANGED tracker_frame

\* no client of the PipelineMonitor has called it
InitTracker == track_calls = <<>>

\* the parts of the system a specification leaves untouched start as
\* constructed
InitOther ==
  InitRuns /\ InitAlerter /\ InitHealthChecker /\ InitApplyFix /\ InitTracker

Init ==
  /\ InitOther
  /\ InitManager
  /\ InitOrchestrator
  /\ InitControl
  /\ client_def \in GenDefinitions
  /\ config = DefaultConfig
  /\ ai_fixer = TRUE
  /\ repository = FALSE
  /\ polling_interval = 60

Next ==
  \/ ClientExecute /\ UNCHANGED monitor_vars /\ UNCHANGED other_vars
  \/ ClientReturn /\ UNCHANGED monitor_vars /\ UNCHANGED other_vars
  \/ EngineStep /\ UNCHANGED <<client_def, e_runs, orch_vars, monitor_vars>> /\ UNCHANGED other_vars
  \/ CancelStep /\ UNCHANGED <<client_def, e_runs, engine_vars, orch_vars, monitor_vars>> /\ UNCHANGED other_vars

Spec == Init /\ [][Next]_vars

\* CICDOrchestrator.__init__ followed by one CI chain (_trigger_ci_pipeline)
InitCI ==
  /\ InitOther
  /\ InitManager
  /\ InitOrchestrator
  /\ InitControl
  /\ client_def = build_pipeline
  /\ config \in Configs
  /\ ai_fixer \in BOOLEAN
  /\ repository = FALSE
  /\ polling_interval = 60

\* the chain runs on the thread that called it; no other thread calls
\* cancel_pipeline while it runs
NextCI ==
  \/ TriggerCI /\ UNCHANGED monitor_vars /\ UNCHANGED other_vars
  \/ EngineStep /\ UNCHANGED <<client_def, e_runs, orch_vars, monitor_vars>> /\ UNCHANGED other_vars
  \/ TriggerPipelineReturn /\ UNCHANGED monitor_vars /\ UNCHANGED other_vars
  \/ CIAfterBuild /\ UNCHANGED monitor_vars /\ UNCHANGED other_vars
  \/ CIAfterTest /\ UNCHANGED monitor_vars /\ UNCHANGED other_vars
  \/ FixAttempt /\ UNCHANGED monitor_vars /\ UNCHANGED other_vars
  \/ AfterRetry /\ UNCHANGED monitor_vars /\ UNCHANGED other_vars
  \/ Exhausted /\ UNCHANGED monitor_vars /\ UNCHANGED other_vars

SpecCI == InitCI /\ [][NextCI]_vars

\* The chains that can enter an auto-fix cycle: auto-fix enabled, and no
\* deployment, which follows only a chain without failure
CycleConfigs ==
  {c \in Configs : /\ c.auto_fix_enabled
                    /\ ~c.auto_deploy
                    /\ c.max_fix_attempts <= MaxCycleAttempts}

InitCycle ==
  /\ InitOther
  /\ InitManager
  /\ InitOrchestrator
  /\ InitControl
  /\ client_def = build_pipeline
  /\ config \in CycleConfigs
  /\ ai_fixer \in BOOLEAN
  /\ repository = FALSE
  /\ polling_interval = 60

\* the chain runs on one thread, and every call it makes returns (tasks
\* run under a timeout): a chain that can take a step takes it
SpecCycle == InitCycle /\ [][NextCI]_vars /\ WF_vars(NextCI)

\* the configurations of the monitored orchestrator: every pipeline enabled,
\* no automatic deployment
MonitorConfigs ==
  {c \in Configs : /\ c.max_fix_attempts <= MaxMonitorAttempts
                   /\ ~c.auto_deploy
                   /\ \A t \in PipelineTypes : c.enabled[t]}

\* __init__ followed by a start() that set up the repository and created the
\* monitor thread; the constructor of AIFixer raised, so self.ai_fixer is None
InitMonitor ==
  /\ InitOther
  /\ InitManager
  /\ alerts = << Alert("info", "CI/CD Orchestrator Started", None, 0) >>
  /\ metrics = <<>>
  /\ o_pc = "idle"
  /\ tp_type = None
  /\ tp_return = None
  /\ tp_result = Literal(None, None)
  /\ failure_data = Literal(None, None)
  /\ hf_type = None
  /\ attempt = 0
  /\ fix_log = <<>>
  /\ hf_alert_base = 0
  /\ trigger_log = <<>>
  /\ client_def = build_pipeline
  /\ config \in MonitorConfigs
  /\ ai_fixer = FALSE
  /\ repository = TRUE
  /\ polling_interval \in PollingIntervals
  /\ running = TRUE
  /\ monitor_thread = 1
  /\ repo_path = "repo"
  /\ last_commit_sha = 0
  /\ local_head = 0
  /\ origin_ref = 0
  /\ remote_head = 0
  /\ monitor_threads = << Thread("loop_test") >>
  /\ s_pc = "idle"
  /\ s_calls = 1
  /\ s_starts = 1

\* the one monitor thread polls and runs the CI chain while commits are
\* pushed; the owner does not call stop()
NextMonitor ==
  \/ \E t \in DOMAIN monitor_threads : LoopTest(t) /\ UNCHANGED other_vars
  \/ \E t \in DOMAIN monitor_threads : MonitorFetch(t) /\ UNCHANGED other_vars
  \/ \E t \in DOMAIN monitor_threads : MonitorCompare(t) /\ UNCHANGED other_vars
  \/ \E t \in DOMAIN monitor_threads : MonitorPull(t) /\ UNCHANGED other_vars
  \/ \E t \in DOMAIN monitor_threads : MonitorTrigger(t) /\ UNCHANGED other_vars
  \/ \E t \in DOMAIN monitor_threads : ChainReturn(t) /\ UNCHANGED other_vars
  \/ \E t \in DOMAIN monitor_threads : MonitorSleep(t) /\ UNCHANGED other_vars
  \/ \E t \in DOMAIN monitor_threads : MonitorExceptSleep(t) /\ UNCHANGED other_vars
  \/ Push /\ UNCHANGED other_vars
  \/ EngineStep /\ UNCHANGED <<client_def, e_runs, orch_vars, monitor_vars>> /\ UNCHANGED other_vars
  \/ TriggerPipelineReturn /\ UNCHANGED monitor_vars /\ UNCHANGED other_vars
  \/ CIAfterBuild /\ UNCHANGED monitor_vars /\ UNCHANGED other_vars
  \/ CIAfterTest /\ UNCHANGED monitor_vars /\ UNCHANGED other_vars
  \/ FixAttempt /\ UNCHANGED monitor_vars /\ UNCHANGED other_vars
  \/ AfterRetry /\ UNCHANGED monitor_vars /\ UNCHANGED other_vars
  \/ Exhausted /\ UNCHANGED monitor_vars /\ UNCHANGED other_vars

SpecMonitor == InitMonitor /\ [][NextMonitor]_vars

\* __init__ of an orchestrator without a configured repository
InitThreads ==
  /\ InitOther
  /\ InitManager
  /\ InitOrchestrator
  /\ InitControl
  /\ client_def = build_pipeline
  /\ config = DefaultConfig
  /\ ai_fixer = TRUE
  /\ repository = FALSE
  /\ polling_interval \in PollingIntervals

\* the owner calls start() and stop() in any order while the threads that
\* start() created run _monitor_loop
NextThreads ==
  \/ StartCall /\ UNCHANGED other_vars
  \/ StartSetup /\ UNCHANGED other_vars
  \/ StartThread /\ UNCHANGED other_vars
  \/ StopCall /\ UNCHANGED other_vars
  \/ StopJoin /\ UNCHANGED other_vars
  \/ \E t \in DOMAIN monitor_threads : LoopTest(t) /\ UNCHANGED other_vars
  \/ \E t \in DOMAIN monitor_threads : MonitorFetch(t) /\ UNCHANGED other_vars
  \/ \E t \in DOMAIN monitor_threads : MonitorSleep(t) /\ UNCHANGED other_vars
  \/ \E t \in DOMAIN monitor_threads : MonitorExceptSleep(t) /\ UNCHANGED other_vars

SpecThreads == InitThreads /\ [][NextThreads]_vars

\* One orchestrator after __init__, and after _setup_repository when a
\* repository is configured (the working copy exists, made by run 0); two
\* threads call trigger_pipeline("build").
InitConcurrent ==
  /\ InitManager
  /\ InitOrchestrator
  /\ client_def = build_pipeline
  /\ config = DefaultConfig
  /\ ai_fixer = TRUE
  /\ repository \in BOOLEAN
  /\ polling_interval = 60
  /\ running = FALSE
  /\ monitor_thread = 0
  /\ repo_path = IF repository THEN RepoDir ELSE None
  /\ last_commit_sha = IF repository THEN 0 ELSE None
  /\ local_head = 0
  /\ origin_ref = 0
  /\ remote_head = 0
  /\ monitor_threads = <<>>
  /\ s_pc = "idle"
  /\ s_calls = 0
  /\ s_starts = 0
  /\ contexts = <<>>
  /\ work_dir = IF repository THEN ClonedBy(0) ELSE NoDirectory
  /\ r_pc = [c \in Callers |-> "idle"]
  /\ r_ctx = [c \in Callers |-> 0]
  /\ r_stage = [c \in Callers |-> 1]
  /\ r_calls = [c \in Callers |-> 0]
  /\ InitAlerter
  /\ InitHealthChecker
  /\ InitApplyFix
  /\ InitTracker

NextConcurrent ==
  \/ \E c \in Callers : RunTrigger(c) /\ UNCHANGED <<pipeline_vars, monitor_vars, alert_calls, health_vars, apply_vars, track_calls>>
  \/ \E c \in Callers : GitCloneClean(c)
       /\ UNCHANGED <<pipeline_vars, monitor_vars, alert_calls, health_vars, apply_vars, track_calls>>
  \/ \E c \in Callers : GitCloneFrom(c)
       /\ UNCHANGED <<pipeline_vars, monitor_vars, alert_calls, health_vars, apply_vars, track_calls>>
  \/ \E c \in Callers : RunCommand(c)
       /\ UNCHANGED <<pipeline_vars, monitor_vars, alert_calls, health_vars, apply_vars, track_calls>>

SpecConcurrent == InitConcurrent /\ [][NextConcurrent]_vars

\* An orchestrator as constructed, with the default configuration
InitConstructed ==
  /\ InitManager
  /\ InitOrchestrator
  /\ InitControl
  /\ client_def = build_pipeline
  /\ config = DefaultConfig
  /\ ai_fixer = TRUE
  /\ repository = FALSE
  /\ polling_interval = 60

\* An orchestrator that has been constructed and is left alone
InitIdle == InitOther /\ InitConstructed

\* A client of the Alerter calls its methods
NextAlerter ==
  \/ ClientSendAlert
  \/ ClientPipelineFailureAlert
  \/ ClientDeploymentAlert

SpecAlerter == InitIdle /\ [][NextAlerter]_vars

\* A client of the HealthChecker registers components and checks them
NextHealth ==
  \/ \E name \in ComponentNames :
       RegisterComponent(name)
         /\ UNCHANGED <<pipeline_vars, monitor_vars, run_vars, alert_calls, apply_vars, track_calls>>
  \/ CheckHealth /\ UNCHANGED <<pipeline_vars, monitor_vars, run_vars, alert_calls, apply_vars, track_calls>>

SpecHealth == InitIdle /\ [][NextHealth]_vars

\* One apply_fix call on a fix descriptor of up to MaxFiles files and
\* MaxCommands commands
InitApplyFixCall ==
  /\ InitConstructed
  /\ InitRuns
  /\ InitAlerter
  /\ InitHealthChecker
  /\ InitTracker
  /\ af_pc = "idle"
  /\ af_fix \in [files : 0..MaxFiles, commands : 0..MaxCommands]
  /\ af_repo \in {None, RepoDir}
  /\ af_i = 1
  /\ af_results = NewResults
  /\ af_log = <<>>

NextApplyFix ==
  \/ ApplyFixCall
       /\ UNCHANGED <<pipeline_vars, monitor_vars, run_vars, alert_calls, health_vars, track_calls>>
  \/ ApplyWriteFile
       /\ UNCHANGED <<pipeline_vars, monitor_vars, run_vars, alert_calls, health_vars, track_calls>>
  \/ ApplyRunCommand
       /\ UNCHANGED <<pipeline_vars, monitor_vars, run_vars, alert_calls, health_vars, track_calls>>
  \/ ApplyReturn
       /\ UNCHANGED <<pipeline_vars, monitor_vars, run_vars, alert_calls, health_vars, track_calls>>

SpecApplyFix == InitApplyFixCall /\ [][NextApplyFix]_vars


\* A client of the PipelineMonitor calls its two tracking methods
NextMetrics ==
  \/ ClientTrackStart
  \/ ClientTrackEnd

SpecMetrics == InitIdle /\ [][NextMetrics]_vars
(***************************************************************************)
(* Properties of the engine and of cancellation                            *)
(***************************************************************************)
\* the entries of task_log that belong to run id
TasksOf(id) == {j \in DOMAIN task_log : task_log[j].id = id}
AllTasksSucceeded(id) == \A j \in TasksOf(id) : task_log[j].state = "ok"
Returned(id) == e_pc = "returned" /\ e_id = id

\* C1: when every task of a run succeeds (and nobody cancels the run),
\* execute_pipeline returns a record with status SUCCESS, an end_time and
\* exactly one successful stage result per declared stage, in declaration
\* order.
C1_AllTasksSucceed ==
  \A id \in DOMAIN active_pipelines :
    (Returned(id) /\ AllTasksSucceeded(id) /\ id \notin cancel_called) =>
      LET info == active_pipelines[id]
      IN /\ info.status = SUCCESS
         /\ info.end_time # NoTime
         /\ Len(info.stages) = Len(e_stages)
         /\ \A k \in DOMAIN info.stages :
              /\ info.stages[k].success
              /\ info.stages[k].name = e_stages[k].name
              /\ Len(info.stages[k].tasks) = Len(e_stages[k].tasks)
         /\ \A k \in DOMAIN e_stages : \A t \in DOMAIN e_stages[k].tasks :
              \E j \in TasksOf(id) : task_log[j].stage = k /\ task_log[j].task = t

C1_Witness ==
  /\ Returned(e_id) /\ e_id \in DOMAIN active_pipelines
  /\ AllTasksSucceeded(e_id) /\ e_id \notin cancel_called
  /\ Len(e_stages) = 2
  /\ Len(e_stages[1].tasks) = 2 /\ Len(e_stages[2].tasks) = 0
  /\ active_pipelines[e_id].status = SUCCESS

\* C2: when a task of the k-th stage fails, execute_pipeline returns status
\* FAILED with that task's error, the stages list has at most k entries of
\* which only the last is failed, and no task of the run is executed after
\* the failing one.
C2_FirstFailureStops ==
  \A j \in DOMAIN task_log :
    task_log[j].state = "failed" =>
      LET id == task_log[j].id
          k == task_log[j].stage
      IN /\ \A j2 \in DOMAIN task_log : j2 > j => task_log[j2].id # id
         /\ (Returned(id) /\ id \notin cancel_called) =>
              LET info == active_pipelines[id]
              IN /\ info.status = FAILED
                 /\ info.end_time # NoTime
                 /\ info.error = task_log[j].error
                 /\ Len(info.stages) <= k
                 /\ Len(info.stages) >= 1
                 /\ \A i \in 1..(Len(info.stages) - 1) : info.stages[i].success
                 /\ ~info.stages[Len(info.stages)].success

C2_Witness ==
  /\ Returned(e_id) /\ e_id \in DOMAIN active_pipelines /\ e_id \notin cancel_called
  /\ Len(e_stages) = 2 /\ Len(e_stages[2].tasks) = 2
  /\ \E j \in TasksOf(e_id) :
       task_log[j].state = "failed" /\ task_log[j].stage = 2 /\ task_log[j].task = 1
  /\ active_pipelines[e_id].status = FAILED
  /\ Len(active_pipelines[e_id].stages) = 2

\* C6: a cancel_pipeline call that finds the run RUNNING writes CANCELLED,
\* then an end_time, and returns True; a call that finds a registered run
\* SUCCESS, FAILED or CANCELLED returns False and leaves the registry as it is.
C6_CancelContract ==
  [][ /\ (c_calls' = c_calls + 1 /\ c_id' \in DOMAIN active_pipelines) =>
           IF active_pipelines[c_id'].status = RUNNING
             THEN c_pc' = "set_status" /\ c_ret' # "False"
             ELSE /\ c_pc' = "idle"
                  /\ c_ret' = "False"
                  /\ active_pipelines' = active_pipelines
      /\ (c_pc = "set_status" /\ c_pc' # c_pc) =>
           /\ c_pc' = "set_end"
           /\ active_pipelines'[c_id].status = CANCELLED
      /\ (c_pc = "set_end" /\ c_pc' # c_pc) =>
           /\ active_pipelines'[c_id].end_time # NoTime
           /\ active_pipelines'[c_id].end_time # active_pipelines[c_id].end_time
           /\ c_ret' = "True"
    ]_vars

C6_Witness ==
  /\ cancel_true # {}
  /\ c_pc = "idle" /\ c_ret = "False" /\ c_id \in DOMAIN active_pipelines
  /\ active_pipelines[c_id].status \in {SUCCESS, FAILED}

\* C7: once cancel_pipeline has returned True for a run, the engine starts no
\* further task of that run.
C7_NoTaskAfterCancel ==
  [][ Len(task_log') > Len(task_log) =>
        task_log'[Len(task_log')].id \notin cancel_true ]_vars

\* C8: a step of the engine never changes a status that has left RUNNING,
\* and never changes the end_time of a run whose status is CANCELLED.
C8_TerminalStatusFinal ==
  [][ \A id \in DOMAIN active_pipelines :
        (e_pc' # e_pc /\ active_pipelines[id].status # RUNNING) =>
          /\ active_pipelines'[id].status = active_pipelines[id].status
          /\ active_pipelines[id].status = CANCELLED =>
               active_pipelines'[id].end_time = active_pipelines[id].end_time ]_vars

\* C9: the stages list of a record changes only by appending one stage result
\* while the status is RUNNING.
C9_StagesFrozen ==
  [][ \A id \in DOMAIN active_pipelines :
        \/ active_pipelines'[id].stages = active_pipelines[id].stages
        \/ /\ active_pipelines[id].status = RUNNING
           /\ Len(active_pipelines'[id].stages) = Len(active_pipelines[id].stages) + 1
           /\ SubSeq(active_pipelines'[id].stages, 1, Len(active_pipelines[id].stages))
                = active_pipelines[id].stages ]_vars

\* C10: cancel_pipeline neither overwrites the status of, nor returns True
\* for, a record the engine has set to SUCCESS or FAILED.
C10_CancelAtomic ==
  [][ (c_pc \in {"set_status", "set_end"} /\ c_pc' # c_pc) =>
        active_pipelines[c_id].status \notin {SUCCESS, FAILED} ]_vars

(***************************************************************************)
(* Properties of the auto-fix cycle                                        *)
(***************************************************************************)
\* handle_failure has been entered with auto-fix enabled
InCycle == hf_type # None /\ config.auto_fix_enabled
\* the alerts sent since handle_failure was entered
CycleAlerts == {i \in DOMAIN alerts : i > hf_alert_base}
CriticalAlerts == {i \in CycleAlerts : alerts[i].level = "critical"}
FixedAlerts == {i \in CycleAlerts : alerts[i].title = "Fixed Successfully"}
NoRetrySucceeded == \A i \in DOMAIN fix_log : fix_log[i].retry # SUCCESS

\* C3: with auto-fix enabled and max_fix_attempts = N, a cycle in which no
\* retry run succeeds makes exactly N fix attempts and then ends exhausted;
\* exactly one critical alert is sent in the cycle, and it is sent after the
\* N-th attempt has ended.
C3_ExhaustedAfterN ==
  InCycle =>
    /\ Len(fix_log) <= config.max_fix_attempts
    /\ (o_pc = "done" /\ NoRetrySucceeded) =>
         /\ Len(fix_log) = config.max_fix_attempts
         /\ Cardinality(CriticalAlerts) = 1
         /\ alerts[Len(alerts)] = Alert("critical", "Auto-Fix Failed", hf_type,
                                        config.max_fix_attempts)
    /\ CriticalAlerts # {} =>
         /\ o_pc = "done"
         /\ NoRetrySucceeded
         /\ Len(fix_log) = config.max_fix_attempts
         /\ CriticalAlerts = {Len(alerts)}

C3_Witness ==
  /\ InCycle /\ o_pc = "done" /\ NoRetrySucceeded
  /\ config.max_fix_attempts = 3 /\ Len(fix_log) = 3
  /\ \E i \in DOMAIN fix_log : fix_log[i].fixed /\ fix_log[i].retry = FAILED
  /\ \E i \in DOMAIN fix_log : ~fix_log[i].fixed
  /\ Cardinality(CriticalAlerts) = 1

\* C4: when the retry run of attempt k ends with SUCCESS the cycle stops at
\* attempt k: one 'fixed' alert naming k is sent, no attempt k+1 is made, no
\* further pipeline run is triggered and no critical alert is sent.
C4_ResolvedStops ==
  \A k \in DOMAIN fix_log :
    fix_log[k].retry = SUCCESS =>
      /\ fix_log[k].attempt = k
      /\ Len(fix_log) = k
      /\ o_pc = "done" /\ e_pc = "idle"
      /\ FixedAlerts = {Len(alerts)}
      /\ alerts[Len(alerts)] = Alert("info", "Fixed Successfully", hf_type, k)
      /\ CriticalAlerts = {}
      /\ tp_result.ref = Len(active_pipelines)
      /\ active_pipelines[tp_result.ref].status = SUCCESS

C4_Witness ==
  /\ InCycle /\ o_pc = "done"
  /\ Len(fix_log) = 2 /\ config.max_fix_attempts = 3
  /\ fix_log[1].retry = FAILED /\ fix_log[2].retry = SUCCESS
  /\ alerts[Len(alerts)].attempt = 2

\* C5: the fix attempts made for one originating failure never exceed the
\* retry_count of the failed pipeline's definition.
C5_RetryCountBounds ==
  (InCycle /\ hf_type \in PipelineTypes
     /\ "retry_count" \in DOMAIN pipeline_definitions[hf_type]) =>
    Len(fix_log) <= pipeline_definitions[hf_type].retry_count

(***************************************************************************)
(* Properties of the run registry                                          *)
(***************************************************************************)
\* an execute_pipeline call starts in this step
ExecuteCalled == e_pc = "idle" /\ e_pc' # "idle"

\* C11: every execute_pipeline call registers exactly one new record, with
\* status RUNNING and no stages, under an id no record had before; no step
\* registers a record otherwise, removes a record, or replaces the record of
\* an existing id (its id, type and start_time stay, its stages only grow).
C11_OneRecordPerRun ==
  [][ /\ ExecuteCalled <=> Len(active_pipelines') = Len(active_pipelines) + 1
      /\ ~ExecuteCalled => Len(active_pipelines') = Len(active_pipelines)
      /\ ExecuteCalled =>
           LET new == active_pipelines'[Len(active_pipelines')]
           IN /\ new.status = RUNNING
              /\ new.stages = <<>>
              /\ new.id = e_id'
              /\ \A id \in DOMAIN active_pipelines : active_pipelines[id].id # new.id
      /\ \A id \in DOMAIN active_pipelines :
           /\ active_pipelines'[id].id = active_pipelines[id].id
           /\ active_pipelines'[id].type = active_pipelines[id].type
           /\ active_pipelines'[id].start_time = active_pipelines[id].start_time
           /\ Len(active_pipelines'[id].stages) >= Len(active_pipelines[id].stages)
    ]_vars

\* a retry run has been registered next to the runs of the chain before it
C11_Witness ==
  /\ Len(active_pipelines) = 4
  /\ o_pc = "executing" /\ tp_return = "retried"
  /\ active_pipelines[4].status = RUNNING
  /\ active_pipelines[1].status = SUCCESS
  /\ \A i, j \in DOMAIN active_pipelines : i # j => active_pipelines[i].id # active_pipelines[j].id

(***************************************************************************)
(* Properties of the Change Monitor                                        *)
(***************************************************************************)
\* thread t is inside an iteration of _monitor_loop, or at its end
InIteration(t) ==
  monitor_threads[t].pc \in {"monitor", "compare", "pull", "trigger", "chain", "sleep"}
IterationOver(t) == monitor_threads[t].pc = "sleep"
\* the trigger_pipeline calls made since the iteration of thread t began
IterTriggers(t) == {i \in DOMAIN trigger_log : i > monitor_threads[t].base}
BuildTriggers(t) == {i \in IterTriggers(t) : trigger_log[i].type = "build"}
ChainBuilds(t) == {i \in BuildTriggers(t) : trigger_log[i].from = "ci_build"}
RetryBuilds(t) == {i \in BuildTriggers(t) : trigger_log[i].from = "retried"}

\* C12 as stated: an iteration that does not find the heads different pulls
\* nothing and triggers nothing; an iteration that finds them different makes
\* exactly one pull and, the pull done, triggers the build pipeline exactly
\* once before it ends.
C12_OnePullOneBuild ==
  \A t \in DOMAIN monitor_threads :
    LET th == monitor_threads[t]
    IN /\ (InIteration(t) /\ th.cmp # "differ") =>
            th.pulls = 0 /\ IterTriggers(t) = {}
       /\ InIteration(t) => th.pulls <= 1 /\ Cardinality(BuildTriggers(t)) <= 1
       /\ (IterationOver(t) /\ th.cmp = "differ") =>
            /\ th.pulls = 1
            /\ th.pulled => Cardinality(BuildTriggers(t)) = 1

\* C12 amended: an iteration that does not find the heads different pulls
\* nothing and triggers nothing; an iteration that finds them different makes
\* exactly one pull; when the pull raises nothing is triggered, and when it
\* succeeds the CI chain is started exactly once: the chain triggers the build
\* pipeline once, and handle_failure triggers it again at most
\* max_fix_attempts times within the same iteration.
C12_OnePullOneChain ==
  \A t \in DOMAIN monitor_threads :
    LET th == monitor_threads[t]
    IN /\ (InIteration(t) /\ th.cmp # "differ") =>
            th.pulls = 0 /\ IterTriggers(t) = {}
       /\ InIteration(t) =>
            /\ th.pulls <= 1
            /\ Cardinality(ChainBuilds(t)) <= 1
            /\ Cardinality(RetryBuilds(t)) <= config.max_fix_attempts
            /\ BuildTriggers(t) = ChainBuilds(t) \cup RetryBuilds(t)
            /\ ~th.pulled => IterTriggers(t) = {}
       /\ (IterationOver(t) /\ th.cmp = "differ") =>
            /\ th.pulls = 1
            /\ th.pulled => Cardinality(ChainBuilds(t)) = 1

\* an iteration that pulled has ended after the chain's build and two retries
C12_Witness ==
  /\ IterationOver(1)
  /\ monitor_threads[1].cmp = "differ" /\ monitor_threads[1].pulled
  /\ Cardinality(ChainBuilds(1)) = 1
  /\ config.max_fix_attempts >= 1
  /\ Cardinality(RetryBuilds(1)) = config.max_fix_attempts
  /\ local_head = 1

(***************************************************************************)
(* Properties of the CI chain                                              *)
(***************************************************************************)
\* the k-th trigger_pipeline call has returned something other than SUCCESS
\* and _trigger_ci_pipeline has acted on it
ChainFailedAt(k, pc) ==
  /\ k \in DOMAIN trigger_log
  /\ trigger_log[k].from = pc
  /\ trigger_log[k].status \notin {None, SUCCESS}
  /\ o_pc # pc

\* C13: the chain triggers test only as its second pipeline, after its build
\* run returned SUCCESS; it triggers deploy only as its third, after build and
\* test returned SUCCESS and with auto_deploy set; a build or test that did
\* not return SUCCESS is handed to handle_failure, and every trigger after it
\* is a retry made by handle_failure.
C13_ChainOrder ==
  /\ \A i \in DOMAIN trigger_log :
       /\ trigger_log[i].from = "ci_build" => i = 1 /\ trigger_log[i].type = "build"
       /\ trigger_log[i].from = "ci_test" =>
            /\ i = 2 /\ trigger_log[i].type = "test"
            /\ trigger_log[1] = Triggered("build", "ci_build", SUCCESS)
       /\ trigger_log[i].from = "done" =>
            /\ i = 3 /\ trigger_log[i].type = "deploy"
            /\ trigger_log[1] = Triggered("build", "ci_build", SUCCESS)
            /\ trigger_log[2] = Triggered("test", "ci_test", SUCCESS)
            /\ config.auto_deploy
  /\ \A k \in 1..2 :
       ChainFailedAt(k, IF k = 1 THEN "ci_build" ELSE "ci_test") =>
         /\ hf_type # None
         /\ \A i \in DOMAIN trigger_log : i > k => trigger_log[i].from = "retried"
  /\ hf_type # None => ChainFailedAt(1, "ci_build") \/ ChainFailedAt(2, "ci_test")

\* the build run succeeded, the test run failed and went to handle_failure
C13_Witness ==
  /\ Len(trigger_log) >= 2
  /\ trigger_log[1] = Triggered("build", "ci_build", SUCCESS)
  /\ trigger_log[2] = Triggered("test", "ci_test", FAILED)
  /\ hf_type = "test"
  /\ o_pc = "done"

(***************************************************************************)
(* Properties of the monitor loop                                          *)
(***************************************************************************)
\* C14: a thread inside _monitor_loop leaves the loop only through the loop
\* test; whatever is raised during an iteration, the thread goes on to its
\* wait and from the wait to the next loop test.
C14_LoopSurvives ==
  [][ \A t \in DOMAIN monitor_threads :
        LET pc == monitor_threads[t].pc
            pc_next == monitor_threads'[t].pc
        IN /\ pc_next = "exited" => pc = "loop_test" /\ ~running
           /\ pc_next # "crashed"
           /\ (pc = "except_sleep" /\ pc_next # pc) => pc_next = "loop_test"
           /\ (pc \in {"monitor", "compare", "pull", "chain"} /\ pc_next # pc) =>
                pc_next \in {"compare", "pull", "trigger", "sleep"} ]_vars

\* the threads that have passed the loop test since the latest start() that
\* found the orchestrator stopped, and are still in the loop
Looping == {t \in DOMAIN monitor_threads : Alive(t) /\ monitor_threads[t].epoch = s_starts}

\* C15: a start() that finds the orchestrator running creates no thread, and
\* at no time are two threads looping: of the threads created so far at most
\* one has passed the loop test since the latest effective start().
C15_SingleLoop ==
  /\ Len(monitor_threads) <= s_starts
  /\ Cardinality(Looping) <= 1

\* C16: every wait between two iterations lasts longer than nothing, and a
\* thread's wait always ends in the next loop test, whatever polling_interval
\* is: no time.sleep of the loop returns at once and none ends the thread.
C16_PositiveWait ==
  [][ \A t \in DOMAIN monitor_threads :
        LET pc == monitor_threads[t].pc
            pc_next == monitor_threads'[t].pc
        IN (pc \in {"sleep", "except_sleep"} /\ pc_next \notin {"sleep", "except_sleep"}) =>
             /\ pc_next = "loop_test"
             /\ monitor_threads'[t].wait > 0 ]_vars

(***************************************************************************)
(* Properties of error handling                                            *)
(***************************************************************************)
\* execute_pipeline has returned the record of run id
RunReturned(id) ==
  /\ id \in DOMAIN active_pipelines
  /\ id < e_id \/ (id = e_id /\ e_pc \in {"returned", "idle"})

\* C17: a task whose action raised or timed out is reported by execute_task
\* as a result with success false and an error text, and the run it belongs
\* to is returned by execute_pipeline with status FAILED, an end_time and
\* that error text.
C17_NoExceptionEscapes ==
  \A j \in DOMAIN task_log :
    task_log[j].outcome \in {"raised", "escaped", "timeout"} =>
      /\ task_log[j].state = "failed"
      /\ task_log[j].error # None
      /\ RunReturned(task_log[j].id) =>
           LET info == active_pipelines[task_log[j].id]
           IN /\ info.status = FAILED
              /\ info.end_time # NoTime
              /\ info.error = task_log[j].error
              /\ info.stages[Len(info.stages)].error = task_log[j].error

\* one run returned after rmtree raised in its first task, a later one after
\* its build command timed out
C17_Witness ==
  \E j, k \in DOMAIN task_log :
    /\ task_log[j].outcome = "escaped" /\ RunReturned(task_log[j].id)
    /\ task_log[k].outcome = "timeout" /\ RunReturned(task_log[k].id)
    /\ active_pipelines[task_log[k].id].error = "Build timed out"

\* the error texts execute_task gives for the unrecognised actions of the
\* shipped definitions
UnknownActionErrors ==
  {"Unknown action: " \o pipeline_definitions[t].stages[i].tasks[1].action :
     t \in PipelineTypes, i \in 1..4} \ {"Unknown action: " \o a : a \in KnownActions}

\* C18: a task with an unrecognised action fails with the unknown-action
\* error and its run is returned FAILED with that error; and no fix attempt
\* made for an unknown-action failure is followed by a retry run of the
\* pipeline.
C18_UnknownActionNotRetried ==
  /\ \A j \in DOMAIN task_log :
       task_log[j].outcome = "none" =>
         /\ task_log[j].state = "failed"
         /\ task_log[j].error \in UnknownActionErrors
         /\ RunReturned(task_log[j].id) =>
              /\ active_pipelines[task_log[j].id].status = FAILED
              /\ active_pipelines[task_log[j].id].error = task_log[j].error
  /\ \A i \in DOMAIN fix_log :
       fix_log[i].error \in UnknownActionErrors =>
         /\ fix_log[i].retry = None
         /\ ~(i = Len(fix_log) /\ o_pc = "executing" /\ tp_return = "retried")

\* C19: with auto_fix_enabled false, handle_failure returns at once: it makes
\* no fix attempt, triggers no pipeline, sends no alert, and leaves the
\* registry as it found it.
C19_NoAutoFixWhenDisabled ==
  (hf_type # None /\ ~config.auto_fix_enabled) =>
    /\ o_pc = "done" /\ e_pc = "idle"
    /\ fix_log = <<>>
    /\ Len(alerts) = hf_alert_base
    /\ \A i \in DOMAIN trigger_log : trigger_log[i].from # "retried"
    /\ Len(active_pipelines) = Len(metrics)
    /\ \A id \in DOMAIN active_pipelines : RunReturned(id)

\* handle_failure was called for a failed build with auto-fix switched off
C19_Witness ==
  /\ hf_type = "build" /\ ~config.auto_fix_enabled
  /\ config.max_fix_attempts = 3
  /\ ResultStatus(failure_data) = FAILED
  /\ o_pc = "done"

\* the alerts trigger_pipeline sent, the runs that returned to it, and the
\* alerts that close an auto-fix cycle
IsRunAlert(a) == a.title \in {"Pipeline Succeeded", "Pipeline Failed"}
RunAlerts == SelectSeq(alerts, IsRunAlert)
HasRun(t) == t.status \notin {None, "disabled", "error"}
ReturnedTriggers == SelectSeq(trigger_log, HasRun)
FinalAlerts ==
  {i \in DOMAIN alerts : alerts[i].title \in {"Auto-Fix Failed", "Fixed Successfully"}}

C21_ShippedActionsRecognised ==
  /\ \A j \in DOMAIN task_log : task_log[j].outcome # "none"
  /\ \A id \in DOMAIN active_pipelines :
       (RunReturned(id) /\ \A j \in TasksOf(id) : task_log[j].outcome \in {"ok", "none"})
         => active_pipelines[id].status = SUCCESS

(***************************************************************************)
(* Properties of the execution context                                     *)
(***************************************************************************)
\* a run past its clone step works in the directory it cloned
PastClone(c) == Executing(c) /\ r_stage[c] > 1

\* C22: no two executing runs hold the same context object, and the
\* working directory of an executing run that has cloned is the clone that
\* run made: no other run's clone step has deleted or replaced it.
C22_ContextOwned ==
  /\ \A c1, c2 \in Callers :
       (c1 # c2 /\ Executing(c1) /\ Executing(c2)) => r_ctx[c1] # r_ctx[c2]
  /\ \A c \in Callers :
       PastClone(c) =>
         /\ contexts[r_ctx[c]].repo_path = RepoDir
         /\ work_dir = ClonedBy(r_ctx[c])

(***************************************************************************)
(* Properties of the alerting and health-check sinks                       *)
(***************************************************************************)
\* the alerts get_alerts(level) returns
Returns(level) == {GetAlerts(level)[k] : k \in DOMAIN GetAlerts(level)}

\* C23: every send_pipeline_failure_alert call records one alert of level
\* 'error', every send_deployment_alert call one alert of level 'info' for
\* status 'success' and of level 'critical' otherwise, and get_alerts of that
\* level returns the alert.
C23_HelperAlertLevels ==
  /\ Len(alerts) = Len(alert_calls)
  /\ \A i \in DOMAIN alert_calls :
       /\ alert_calls[i].method = "send_pipeline_failure_alert" =>
            alerts[i].level = "error" /\ alerts[i] \in Returns("error")
       /\ alert_calls[i].method = "send_deployment_alert" =>
            LET level == IF alert_calls[i].status = "success" THEN "info" ELSE "critical"
            IN alerts[i].level = level /\ alerts[i] \in Returns(level)

\* C25: the last check_health report is 'healthy' exactly when every check
\* function returned a truthy value and 'degraded' otherwise; it covers
\* every component registered at the time, a raising check giving 'error' to
\* its own component only; and a component's status is 'unknown' exactly
\* until check_health has run its check function.
C25_HealthReport ==
  /\ health_report # NoReport =>
       /\ health_report.overall_status =
            (IF \A n \in DOMAIN check_outcomes : check_outcomes[n] = "truthy"
               THEN "healthy" ELSE "degraded")
       /\ DOMAIN health_report.components = DOMAIN check_outcomes
       /\ \A n \in DOMAIN check_outcomes :
            health_report.components[n] = StatusAfter(check_outcomes[n])
  /\ \A i \in DOMAIN components :
       /\ components[i].status = "unknown" <=> ~components[i].checked
       /\ GetComponentStatus(components[i].name) = components[i].status
  /\ \A n \in ComponentNames \ Registered : GetComponentStatus(n) = "unknown"

\* the first registered component's check raised and a later one was still
\* checked and found healthy
C25_Witness ==
  /\ Len(components) >= 2
  /\ components[1].status = "error" /\ components[2].status = "healthy"
  /\ health_report.overall_status = "degraded"
  /\ DOMAIN check_outcomes = Registered
  /\ check_outcomes[components[1].name] = "raises"
  /\ health_report.components[components[2].name] = "healthy"

(***************************************************************************)
(* Further properties of the registry and the engine                       *)
(***************************************************************************)
\* C24: a cancel_pipeline call with a run id that is not in the registry
\* returns True.
C24_CancelUnknownTrue ==
  [][ (c_calls' = c_calls + 1 /\ c_id' \notin DOMAIN active_pipelines) =>
        c_pc' = "idle" /\ c_ret' = "True" ]_vars

\* the number of tasks declared before task t of stage s, plus one
RECURSIVE Position(_, _, _)
Position(stages, s, t) ==
  IF s = 1 THEN t ELSE Len(stages[s - 1].tasks) + Position(stages, s - 1, t)

\* the execute_task calls of run id, in the order they were made
CallsOf(id) ==
  LET OfRun(entry) == entry.id = id
  IN SelectSeq(task_log, OfRun)

\* C26: in every run the first task invoked is the first declared task, and
\* every further invocation is of the task declared next after the one
\* invoked before it, made only after that one has returned: the invocations
\* of a run form a prefix of its declared tasks without gap, repetition,
\* reordering or overlap, and no run's invocations mix with another's.
C26_DeclarationOrder ==
  [][task_log' # task_log =>
       LET n == Len(task_log')
           call == task_log'[n]
       IN \/ /\ n = Len(task_log)
             /\ task_log' = [task_log EXCEPT ![n].state = call.state,
                                              ![n].error = call.error,
                                              ![n].outcome = call.outcome]
             /\ task_log[n].state = "started"
             /\ call.state # "started"
          \/ /\ task_log' = Append(task_log, call)
             /\ call.state = "started"
             /\ call.stage \in DOMAIN client_def.stages
             /\ call.task \in DOMAIN client_def.stages[call.stage].tasks
             /\ IF n = 1 \/ task_log[n - 1].id # call.id
                  THEN /\ Position(client_def.stages, call.stage, call.task) = 1
                       /\ \A m \in DOMAIN task_log : task_log[m].id # call.id
                  ELSE /\ Position(client_def.stages, call.stage, call.task) =
                            Position(client_def.stages, task_log[n - 1].stage,
                                     task_log[n - 1].task) + 1
                       /\ task_log[n - 1].state # "started"]_vars

\* a run of two stages of two tasks each has invoked all four tasks
C26_Witness ==
  /\ Len(client_def.stages) = 2
  /\ \A s \in 1..2 : Len(client_def.stages[s].tasks) = 2
  /\ Len(CallsOf(1)) = 4
  /\ CallsOf(1)[3].stage = 2 /\ CallsOf(1)[3].task = 1
  /\ Returned(1)

(***************************************************************************)
(* Further properties of the auto-fix cycle                                *)
(***************************************************************************)
RetryTriggers == {k \in DOMAIN trigger_log : trigger_log[k].from = "retried"}

\* C27: a fix attempt that does not report success is one of the
\* max_fix_attempts attempts, is followed by no pipeline run, hands its
\* failure data unchanged to the next attempt and does not end the cycle
\* early; a pipeline is re-executed only in an attempt whose fix result
\* reports success.
C27_FailedAttemptConsumesSlot ==
  /\ Cardinality(RetryTriggers) = Cardinality({i \in DOMAIN fix_log : fix_log[i].fixed})
  /\ \A i \in DOMAIN fix_log :
       /\ fix_log[i].attempt = i
       /\ i <= config.max_fix_attempts
       /\ fix_log[i].retry # None => fix_log[i].fixed
       /\ (~fix_log[i].fixed /\ i < Len(fix_log)) =>
            /\ fix_log[i + 1].error = fix_log[i].error
            /\ fix_log[i + 1].type = fix_log[i].type
       /\ (~fix_log[i].fixed /\ i = Len(fix_log)) =>
            /\ o_pc \in {"fix", "exhausted", "done"}
            /\ ResultError(failure_data) = fix_log[i].error
            /\ o_pc = "fix" => attempt = i + 1
            /\ o_pc # "fix" => i = config.max_fix_attempts

\* a failed attempt was followed by an attempt on the same failure whose
\* fix succeeded and whose retry ran
C27_Witness ==
  /\ Len(fix_log) >= 2
  /\ ~fix_log[1].fixed
  /\ fix_log[2].fixed /\ fix_log[2].retry = FAILED
  /\ fix_log[2].error = fix_log[1].error

\* C29: whenever handle_failure re-executes the pipeline in an attempt, the
\* fix descriptor of that attempt (its files and commands, if it has any)
\* has been applied.
C29_FixAppliedBeforeRetry ==
  \A i \in DOMAIN fix_log :
    (fix_log[i].fixed /\ fix_log[i].fix.files + fix_log[i].fix.commands > 0) =>
      fix_log[i].fix.applied

\* C28: apply_fix makes every file write before it runs any command, runs
\* the commands in list order, runs no command after the first one that
\* exits non-zero, and reports failure when a command exited non-zero.
C28_ApplyOrder ==
  /\ \A j, k \in DOMAIN af_log :
       (j < k /\ af_log[k].op = "write") => af_log[j].op = "write"
  /\ \A j, k \in DOMAIN af_log :
       (j < k /\ af_log[j].op = "run" /\ af_log[k].op = "run") => af_log[j].n < af_log[k].n
  /\ \A j \in DOMAIN af_log :
       af_log[j].op = "run" =>
         Cardinality({k \in DOMAIN af_log : af_log[k].op = "write"}) = af_fix.files
  /\ \A j, k \in DOMAIN af_log :
       (j < k /\ af_log[j].op = "run" /\ af_log[j].result = "nonzero") =>
         af_log[k].op # "run"
  /\ (af_pc = "done" /\ \E j \in DOMAIN af_log : af_log[j].result = "nonzero") =>
       ~af_results.success


\* the run that the k-th trigger_pipeline call started
RunOf(k) == Cardinality({i \in 1..k : trigger_log[i].context # NoContext})

\* the run of the k-th call completed its git_clone task
Cloned(k) ==
  \E n \in DOMAIN task_log :
    /\ task_log[n].id = RunOf(k)
    /\ task_log[n].state = "ok"
    /\ pipeline_definitions[trigger_log[k].type]
         .stages[task_log[n].stage].tasks[task_log[n].task].action = "git_clone"

\* the context of the k-th call's run as its tasks left it: _git_clone sets
\* context["repo_path"], no other task writes to the context
ContextAfter(k) ==
  IF Cloned(k) THEN [trigger_log[k].context EXCEPT !.repo_path = RepoDir]
  ELSE trigger_log[k].context

\* C30: every retry of an auto-fix cycle runs with the context the failed
\* run ended with, the repo_path set by its clone included.
C30_RetryKeepsContext ==
  \A k \in DOMAIN trigger_log :
    (k > 1 /\ trigger_log[k].from = "retried" /\ trigger_log[k].context # NoContext) =>
      trigger_log[k].context = ContextAfter(k - 1)


\* C31: the attempt that follows a failed retry run hands the fixer the
\* result of that retry run, its error text and its pipeline type.
C31_NextAttemptSeesRetry ==
  [][(/\ Len(fix_log') = Len(fix_log) + 1
      /\ Len(fix_log) > 0
      /\ fix_log[Len(fix_log)].retry \notin {None, SUCCESS}) =>
       LET entry == fix_log'[Len(fix_log')]
       IN /\ entry.attempt = fix_log[Len(fix_log)].attempt + 1
          /\ entry.error = ResultError(tp_result)
          /\ entry.type = ResultType(tp_result)]_vars

\* the second attempt was handed an error text other than the first one's,
\* that of the failed retry run
C31_Witness ==
  /\ Len(fix_log) >= 2
  /\ fix_log[1].retry = FAILED
  /\ fix_log[2].attempt = 2
  /\ fix_log[2].error # fix_log[1].error
  /\ fix_log[2].error = active_pipelines[2].error


(***************************************************************************)
(* Properties of the events the core emits                                 *)
(***************************************************************************)
\* C32: every outcome alert (pipeline succeeded or failed, fix resolved or
\* exhausted) carries the id of the run it reports along with the pipeline
\* type, and a run is announced as started before its first task executes.
C32_EventsCarryRun ==
  /\ \A i \in DOMAIN alerts :
       /\ alerts[i].type \in PipelineTypes \cup {"unknown"}
       /\ \E m \in alerts[i].metadata : m[1] = "pipeline_id"
  /\ \A n \in DOMAIN task_log :
       \E k \in DOMAIN metrics : metrics[k].pipeline_id = task_log[n].id


\* C33: once the clone task of a run has succeeded, every later task of
\* that run reads the cloned path from context["repo_path"], and a context
\* changes only by the write of a successful clone of its own run.
C33_ClonedPathVisible ==
  /\ [](\A c \in Callers : PastClone(c) => contexts[r_ctx[c]].repo_path = RepoDir)
  /\ [][\A i \in DOMAIN contexts :
          contexts'[i] # contexts[i] =>
            /\ \E c \in Callers : r_pc[c] = "clone" /\ r_ctx[c] = i
            /\ work_dir' = ClonedBy(i)
            /\ contexts'[i] = [contexts[i] EXCEPT !.repo_path = RepoDir]]_vars

\* a run triggered without a repository path is at its third task and
\* reads the path its clone wrote, while the other caller's run executes
C33_Witness ==
  \E c \in Callers :
    /\ repo_path = None
    /\ r_pc[c] = "task"
    /\ r_stage[c] = 3
    /\ contexts[r_ctx[c]].repo_path = RepoDir
    /\ \E d \in Callers \ {c} : Executing(d)


(***************************************************************************)
(* Properties of the PipelineMonitor                                       *)
(***************************************************************************)
\* the call a step of the client makes
LastTrack == track_calls'[Len(track_calls')]

\* track_pipeline_start appends one running metric and touches no other
StartAppends ==
  /\ Len(metrics') = Len(metrics) + 1
  /\ \A i \in DOMAIN metrics : metrics'[i] = metrics[i]
  /\ metrics'[Len(metrics')].pipeline_id = LastTrack.id
  /\ metrics'[Len(metrics')].status = "running"

\* C34 as stated: a started metric is running until track_pipeline_end is
\* called for its pipeline id; that call sets the status and the duration
\* of the metric of that id and leaves every other metric unchanged, a call
\* for an id never started changes nothing, and no metric is ever removed.
C34_MetricLifecycle ==
  [][track_calls' # track_calls =>
       IF LastTrack.method = "start" THEN StartAppends
       ELSE /\ Len(metrics') = Len(metrics)
            /\ \A i \in DOMAIN metrics :
                 IF metrics[i].pipeline_id = LastTrack.id
                   THEN /\ metrics'[i].status = LastTrack.status
                        /\ metrics'[i].duration = LastTrack.duration
                   ELSE metrics'[i] = metrics[i]]_vars

\* C34 amended: track_pipeline_end sets the status and the duration of the
\* earliest metric of that id only; every other metric, a later one of the
\* same id included, is unchanged; a call for an id never started changes
\* nothing, and no metric is ever removed.
C34_FirstMetricEnds ==
  [][track_calls' # track_calls =>
       IF LastTrack.method = "start" THEN StartAppends
       ELSE /\ Len(metrics') = Len(metrics)
            /\ \A i \in DOMAIN metrics :
                 IF /\ metrics[i].pipeline_id = LastTrack.id
                    /\ \A j \in 1..(i - 1) : metrics[j].pipeline_id # LastTrack.id
                   THEN metrics'[i] = [metrics[i] EXCEPT !.status = LastTrack.status,
                                                         !.duration = LastTrack.duration]
                   ELSE metrics'[i] = metrics[i]]_vars

\* an id was started twice and then ended: the earlier metric has the
\* status, the later one is still running
C34_Witness ==
  /\ Len(metrics) = 2
  /\ metrics[1].pipeline_id = metrics[2].pipeline_id
  /\ metrics[1].status = "success" /\ metrics[1].duration = 5
  /\ metrics[2].status = "running"
  /\ Len(track_calls) = 3
  /\ track_calls[3].method = "end" /\ track_calls[3].id = metrics[2].pipeline_id


(***************************************************************************)
(* Further properties of trigger_pipeline and the CI chain                 *)
(***************************************************************************)
\* the trigger_pipeline call a step makes
NewTrigger == trigger_log'[Len(trigger_log')]

\* C35: a trigger_pipeline call for a disabled pipeline returns status
\* 'disabled' and one for an unknown type returns status 'error'; either
\* call returns to its caller at once, executes no task and leaves the
\* registry, the metrics and the alerts unchanged.
C35_NoRunForDisabledOrUnknown ==
  [][Len(trigger_log') = Len(trigger_log) + 1 =>
       /\ (NewTrigger.type \in PipelineTypes /\ ~config.enabled[NewTrigger.type]) =>
            NewTrigger.status = "disabled"
       /\ NewTrigger.type \notin PipelineTypes => NewTrigger.status = "error"
       /\ NewTrigger.status \in {"disabled", "error"} =>
            /\ o_pc' = NewTrigger.from
            /\ tp_result'.ref = 0
            /\ tp_result'.status = NewTrigger.status
            /\ active_pipelines' = active_pipelines
            /\ task_log' = task_log
            /\ e_pc' = e_pc
            /\ metrics' = metrics
            /\ alerts' = alerts]_vars

\* both cases have happened in one chain: the build pipeline is disabled,
\* and the retry of that failure asks for the type 'unknown'
C35_Witness ==
  /\ Len(trigger_log) >= 2
  /\ trigger_log[1].status = "disabled"
  /\ trigger_log[2].type = "unknown"
  /\ trigger_log[2].status = "error"
  /\ active_pipelines = <<>>


\* C36: when the build or the test pipeline of the chain is disabled, the
\* chain makes no fix attempt, triggers no further pipeline and sends no
\* failure alert and no exhausted alert.
C36_DisabledStartsNoCycle ==
  \A k \in DOMAIN trigger_log :
    (trigger_log[k].from \in {"ci_build", "ci_test"} /\ trigger_log[k].status = "disabled") =>
      /\ Len(trigger_log) = k
      /\ fix_log = <<>>
      /\ \A i \in DOMAIN alerts : alerts[i].title \notin {"Pipeline Failed", "Auto-Fix Failed"}


\* C37: an auto-fix cycle entered with auto-fix enabled makes at most
\* max_fix_attempts attempts and at most max_fix_attempts re-executions,
\* comes to its end, and has then sent exactly one final alert: the 'fixed'
\* alert or the 'auto-fix failed' alert, never both and never neither.
C37_CycleEndsWithOneAlert ==
  /\ [](InCycle =>
          /\ Len(fix_log) <= config.max_fix_attempts
          /\ Cardinality(RetryTriggers) <= config.max_fix_attempts
          /\ Cardinality(FinalAlerts) <= 1
          /\ o_pc = "done" => Cardinality(FinalAlerts) = 1
          /\ FinalAlerts # {} => o_pc = "done")
  /\ InCycle ~> (o_pc = "done" /\ Cardinality(FinalAlerts) = 1)

\* a cycle of two attempts, each with a re-execution, resolved by the last
C37_Witness ==
  /\ InCycle
  /\ o_pc = "done"
  /\ config.max_fix_attempts = 2
  /\ Len(fix_log) = 2
  /\ Cardinality(RetryTriggers) = 2
  /\ FinalAlerts = FixedAlerts
  /\ FixedAlerts = {Len(alerts)}


(***************************************************************************)
(* Further properties of the working copy and the Change Monitor           *)
(***************************************************************************)
\* C38: a clone task that fails leaves the working copy that existed at
\* <workspace>/repo in place: with a repository set up, the working copy
\* is there whenever no clone is in progress, so the Change Monitor can
\* open it.
C38_FailedCloneKeepsCopy ==
  repository => (work_dir.exists \/ \E c \in Callers : r_pc[c] = "clone")


(***************************************************************************)
(* A running orchestrator whose owner calls stop() and never start()       *)
(* again, while its monitor thread polls the repository                    *)
(***************************************************************************)
\* the configurations of the stopped orchestrator: auto-fix switched off,
\* so a failed run ends the chain
StopConfigs == {c \in MonitorConfigs : ~c.auto_fix_enabled}

\* as InitMonitor: start() has returned and the thread is at its first loop
\* test
InitStop ==
  /\ InitOther
  /\ InitManager
  /\ alerts = << Alert("info", "CI/CD Orchestrator Started", None, 0) >>
  /\ metrics = <<>>
  /\ o_pc = "idle"
  /\ tp_type = None
  /\ tp_return = None
  /\ tp_result = Literal(None, None)
  /\ failure_data = Literal(None, None)
  /\ hf_type = None
  /\ attempt = 0
  /\ fix_log = <<>>
  /\ hf_alert_base = 0
  /\ trigger_log = <<>>
  /\ client_def = build_pipeline
  /\ config \in StopConfigs
  /\ ai_fixer = FALSE
  /\ repository = TRUE
  /\ polling_interval \in PollingIntervals
  /\ running = TRUE
  /\ monitor_thread = 1
  /\ repo_path = "repo"
  /\ last_commit_sha = 0
  /\ local_head = 0
  /\ origin_ref = 0
  /\ remote_head = 0
  /\ monitor_threads = << Thread("loop_test") >>
  /\ s_pc = "idle"
  /\ s_calls = 1
  /\ s_starts = 1

\* the steps of the monitor thread: the loop, monitor_changes and the chain
\* it runs
LoopStep ==
  \/ \E t \in DOMAIN monitor_threads : LoopTest(t) /\ UNCHANGED other_vars
  \/ \E t \in DOMAIN monitor_threads : MonitorFetch(t) /\ UNCHANGED other_vars
  \/ \E t \in DOMAIN monitor_threads : MonitorCompare(t) /\ UNCHANGED other_vars
  \/ \E t \in DOMAIN monitor_threads : MonitorPull(t) /\ UNCHANGED other_vars
  \/ \E t \in DOMAIN monitor_threads : MonitorTrigger(t) /\ UNCHANGED other_vars
  \/ \E t \in DOMAIN monitor_threads : ChainReturn(t) /\ UNCHANGED other_vars
  \/ \E t \in DOMAIN monitor_threads : MonitorSleep(t) /\ UNCHANGED other_vars
  \/ \E t \in DOMAIN monitor_threads : MonitorExceptSleep(t) /\ UNCHANGED other_vars
  \/ EngineStep /\ UNCHANGED <<client_def, e_runs, orch_vars, monitor_vars>> /\ UNCHANGED other_vars
  \/ TriggerPipelineReturn /\ UNCHANGED monitor_vars /\ UNCHANGED other_vars
  \/ CIAfterBuild /\ UNCHANGED monitor_vars /\ UNCHANGED other_vars
  \/ CIAfterTest /\ UNCHANGED monitor_vars /\ UNCHANGED other_vars

\* the owner calls stop(), never start(); commits are pushed meanwhile
NextStop ==
  \/ LoopStep
  \/ StopCall /\ UNCHANGED other_vars
  \/ StopJoin /\ UNCHANGED other_vars
  \/ Push /\ UNCHANGED other_vars

\* the monitor thread is scheduled, and every call it makes returns (sleeps
\* are finite, tasks run under a timeout)
SpecStop == InitStop /\ [][NextStop]_vars /\ WF_vars(LoopStep)

\* C39: once stop() has set running to false, and with no further start(),
\* a loop test never begins another iteration, pipelines are triggered only
\* inside an iteration already begun, and the monitor thread eventually ends.
C39_StopEndsLoop ==
  /\ [][/\ \A t \in DOMAIN monitor_threads :
             (~running /\ monitor_threads[t].pc = "loop_test")
               => monitor_threads'[t].pc \in {"loop_test", "exited"}
        /\ trigger_log' # trigger_log
             => \E t \in DOMAIN monitor_threads :
                  monitor_threads[t].pc \in {"trigger", "chain"}]_vars
  /\ ~running ~> (\A t \in DOMAIN monitor_threads : ~Alive(t))

\* stop() was called during an iteration that triggered a pipeline; the
\* thread slept its 60 seconds and left the loop
C39_Witness ==
  /\ ~running
  /\ s_pc = "idle"
  /\ monitor_threads[1].pc = "exited"
  /\ monitor_threads[1].wait = 60
  /\ Len(trigger_log) > 0


\* C40: a new remote head starts the CI chain at most once.  A pull that
\* succeeds brings the working copy from an older head to the remote head,
\* and pipelines are triggered only in an iteration whose pull succeeded;
\* an iteration that finds the working copy at the remote head goes to its
\* sleep, so iterations after the chain trigger nothing until the remote
\* head changes again.  A pull that raises triggers nothing and leaves the
\* working copy behind the remote head, and the next comparison that is
\* made finds the heads different again.
C40_NewHeadOneChain ==
  [][/\ \A t \in DOMAIN monitor_threads :
          LET before == monitor_threads[t]
              after == monitor_threads'[t]
          IN /\ (before.pc = "pull" /\ after.pc = "trigger")
                  => local_head < local_head' /\ local_head' = remote_head
             /\ (before.pc = "pull" /\ after.pc = "sleep")
                  => /\ trigger_log' = trigger_log
                     /\ local_head' = local_head
                     /\ local_head < remote_head
             /\ (before.pc = "compare" /\ local_head = remote_head)
                  => after.pc \in {"compare", "sleep"}
             /\ (before.pc = "compare" /\ after.cmp = "differ")
                  => after.pc = "pull"
     /\ trigger_log' # trigger_log
          => \E t \in DOMAIN monitor_threads :
               /\ monitor_threads[t].pc \in {"trigger", "chain"}
               /\ monitor_threads[t].pulled]_vars

\* the chain has run for head 1, and a later iteration found the heads equal
\* and triggered nothing
C40_Witness ==
  /\ IterationOver(1)
  /\ monitor_threads[1].cmp = "equal"
  /\ IterTriggers(1) = {}
  /\ local_head = 1 /\ remote_head = 1
  /\ Len(trigger_log) > 0

(***************************************************************************)
(* Two monitor loops on one orchestrator                                   *)
(***************************************************************************)
\* the state after start(), stop() and start(): the first thread compared the
\* heads, found them equal and slept its 60 seconds through the stop(), whose
\* join gave up after 5, and through the second start(), which opened the
\* working copy and created the second thread (C15)
InitTwoLoops ==
  /\ InitOther
  /\ InitManager
  /\ alerts = << Alert("info", "CI/CD Orchestrator Started", None, 0),
                 Alert("info", "CI/CD Orchestrator Stopped", None, 0),
                 Alert("info", "CI/CD Orchestrator Started", None, 0) >>
  /\ metrics = <<>>
  /\ o_pc = "idle"
  /\ tp_type = None
  /\ tp_return = None
  /\ tp_result = Literal(None, None)
  /\ failure_data = Literal(None, None)
  /\ hf_type = None
  /\ attempt = 0
  /\ fix_log = <<>>
  /\ hf_alert_base = 0
  /\ trigger_log = <<>>
  /\ client_def = build_pipeline
  /\ config \in StopConfigs
  /\ ai_fixer = FALSE
  /\ repository = TRUE
  /\ polling_interval = 60
  /\ running = TRUE
  /\ monitor_thread = 2
  /\ repo_path = "repo"
  /\ last_commit_sha = 0
  /\ local_head = 0
  /\ origin_ref = 0
  /\ remote_head = 0
  /\ monitor_threads =
       << [Thread("loop_test") EXCEPT !.wait = 60, !.epoch = 1, !.remote_sha = 0,
                                      !.cmp = "equal"],
          Thread("loop_test") >>
  /\ s_pc = "idle"
  /\ s_calls = 3
  /\ s_starts = 2

\* both threads poll and run the chain while commits are pushed; a sleep of
\* 60 seconds does not raise
NextTwoLoops ==
  \/ \E t \in DOMAIN monitor_threads : LoopTest(t) /\ UNCHANGED other_vars
  \/ \E t \in DOMAIN monitor_threads : MonitorFetch(t) /\ UNCHANGED other_vars
  \/ \E t \in DOMAIN monitor_threads : MonitorCompare(t) /\ UNCHANGED other_vars
  \/ \E t \in DOMAIN monitor_threads : MonitorPull(t) /\ UNCHANGED other_vars
  \/ \E t \in DOMAIN monitor_threads : MonitorTrigger(t) /\ UNCHANGED other_vars
  \/ \E t \in DOMAIN monitor_threads : ChainReturn(t) /\ UNCHANGED other_vars
  \/ \E t \in DOMAIN monitor_threads : MonitorSleep(t) /\ UNCHANGED other_vars
  \/ Push /\ UNCHANGED other_vars
  \/ EngineStep /\ UNCHANGED <<client_def, e_runs, orch_vars, monitor_vars>> /\ UNCHANGED other_vars
  \/ TriggerPipelineReturn /\ UNCHANGED monitor_vars /\ UNCHANGED other_vars
  \/ CIAfterBuild /\ UNCHANGED monitor_vars /\ UNCHANGED other_vars
  \/ CIAfterTest /\ UNCHANGED monitor_vars /\ UNCHANGED other_vars

SpecTwoLoops == InitTwoLoops /\ [][NextTwoLoops]_vars

====
